---- MODULE Spec2Model ----
(***************************************************************************)
(* Model of the electricity price optimizer: the min-cost-flow engine      *)
(* (flow/MCMF.rs), the keyed flow wrapper (flow/wrapper.rs), the snapshot  *)
(* stack (helper/stack_proxy.rs), the smart-home flow builder and solver   *)
(* (optimizer/mod.rs) and the annealing state, moves and driver            *)
(* (simulated_annealing/).                                                 *)
(*                                                                         *)
(* Node ids and edge handles are 0-based as in the source; the sequences   *)
(* that hold them are 1-based, so vec[i] of the source is seq[i + 1] here. *)
(***************************************************************************)
EXTENDS Integers, Sequences, FiniteSets, TLC

(***************************************************************************)
(* Program constants.  The source uses 64-bit integers with INF = 1 << 60  *)
(* and i64::MAX as "unbounded" capacity; TLC's integers are 32 bits wide,  *)
(* so both sentinels are scaled down, keeping INF < I64_MAX and both far   *)
(* above every distance, cost and finite capacity the bounded inputs       *)
(* produce.                                                                *)
(***************************************************************************)
INF == 1048576
I64_MAX == 2097151
USIZE_MAX == -1
SOURCE == 0
SINK == 1

(***************************************************************************)
(* Bounds of the model.                                                    *)
(***************************************************************************)
MaxNodes == 3
MaxEdges == 3
MaxCap == 1
MaxCost == 2

Min(a, b) == IF a < b THEN a ELSE b

Max(a, b) == IF a < b THEN b ELSE a

Get(vec, i) == vec[i + 1]

Set(vec, i, x) == [vec EXCEPT ![i + 1] = x]

Filled(n, x) == [i \in 1..n |-> x]

(***************************************************************************)
(* MinCostFlow (flow/MCMF.rs).  An edge is [to, f, cost]; edge 2k is the   *)
(* forward edge of pair k and 2k + 1 its reverse.                          *)
(***************************************************************************)
Xor1(id) == IF id % 2 = 0 THEN id + 1 ELSE id - 1

MinCostFlow_new ==
  [ edges |-> << >>, adj |-> << << >>, << >> >>, pref |-> << >>, con |-> << >>,
    dist |-> << >>, pi |-> << >>, maxflow |-> 0, mincost |-> 0 ]

NumNodes(g) == Len(g.adj)

new_node(g) == [g EXCEPT !.adj = Append(@, << >>)]

add_edge(g, u, v, cap, cost) ==
  LET id == Len(g.edges)
      adj1 == Set(g.adj, u, Append(Get(g.adj, u), id))
      adj2 == Set(adj1, v, Append(Get(adj1, v), id + 1))
  IN [g EXCEPT !.adj = adj2,
               !.edges = @ \o << [to |-> v, f |-> cap, cost |-> cost],
                                 [to |-> u, f |-> 0, cost |-> -cost] >>]

(* a push that takes the residual from edge id and gives it to no edge *)
PushEdge_forward_only(edges, id, w) ==
  [edges EXCEPT ![id + 1].f = @ - w]

(* push w units over edge id: the residual moves to the paired edge *)
PushEdge(edges, id, w) ==
  [edges EXCEPT ![id + 1].f = @ - w, ![Xor1(id) + 1].f = @ + w]

RECURSIVE PushAll(_, _, _)
PushAll(edges, ids, w) ==
  IF ids = << >> THEN edges
  ELSE PushAll(PushEdge(edges, Head(ids), w), Tail(ids), w)

RECURSIVE SumCost(_, _)
SumCost(edges, ids) ==
  IF ids = << >> THEN 0
  ELSE Get(edges, Head(ids)).cost + SumCost(edges, Tail(ids))

(***************************************************************************)
(* One pass of the SPFA loop of spfa_with_cycle_cancel, up to the point    *)
(* where it either drains the queue (cyc = USIZE_MAX) or sees a relaxation *)
(* counter reach n (cyc = the node handed to cancel_negative_cycle).       *)
(***************************************************************************)
RECURSIVE SpfaRelax(_, _, _)
SpfaRelax(st, u, k) ==
  IF k > Len(Get(st.g.adj, u)) THEN st
  ELSE
    LET id == Get(st.g.adj, u)[k]
        e == Get(st.g.edges, id)
        nd == Get(st.g.dist, u) + e.cost
    IN IF e.f > 0 /\ Get(st.g.dist, e.to) > nd
       THEN LET g1 == [st.g EXCEPT !.dist = Set(@, e.to, nd),
                                   !.pref = Set(@, e.to, u),
                                   !.con = Set(@, e.to, id)]
                cnt1 == Set(st.cnt, e.to, Get(st.cnt, e.to) + 1)
            IN IF Get(cnt1, e.to) >= NumNodes(st.g)
               THEN [st EXCEPT !.g = g1, !.cnt = cnt1, !.cyc = e.to]
               ELSE IF Get(st.inq, e.to)
                    THEN SpfaRelax([st EXCEPT !.g = g1, !.cnt = cnt1], u, k + 1)
                    ELSE SpfaRelax([st EXCEPT !.g = g1, !.cnt = cnt1,
                                              !.inq = Set(@, e.to, TRUE),
                                              !.q = Append(@, e.to)], u, k + 1)
       ELSE SpfaRelax(st, u, k + 1)

RECURSIVE SpfaLoop(_)
SpfaLoop(st) ==
  IF st.cyc # USIZE_MAX \/ st.q = << >> THEN st
  ELSE LET u == Head(st.q)
       IN SpfaLoop(SpfaRelax([st EXCEPT !.q = Tail(@), !.inq = Set(@, u, FALSE)], u, 1))

SpfaResult(st) == [g |-> st.g, cyc |-> st.cyc]

SpfaPass(g) ==
  SpfaResult(SpfaLoop(
    [g |-> [g EXCEPT !.pref = Set(Filled(NumNodes(g), USIZE_MAX), SOURCE, SOURCE),
                     !.dist = Set(Filled(NumNodes(g), INF), SOURCE, 0)],
     inq |-> Set(Filled(NumNodes(g), FALSE), SOURCE, TRUE),
     cnt |-> Filled(NumNodes(g), 0), q |-> << SOURCE >>, cyc |-> USIZE_MAX]))

(***************************************************************************)
(* cancel_negative_cycle(start): walk pref n times, then collect the edges *)
(* con[u] along pref until the walk is back at its first node, and push    *)
(* the least residual over them.                                           *)
(***************************************************************************)
RECURSIVE WalkPref(_, _, _)
WalkPref(pref, u, k) == IF k = 0 THEN u ELSE WalkPref(pref, Get(pref, u), k - 1)

RECURSIVE CycleEdges(_, _, _)
CycleEdges(g, u, cycle_start) ==
  LET id == Get(g.con, u)
      nxt == Get(g.pref, u)
  IN IF nxt = cycle_start THEN << id >>
     ELSE << id >> \o CycleEdges(g, nxt, cycle_start)

RECURSIVE MinResidual(_, _)
MinResidual(edges, ids) ==
  IF ids = << >> THEN INF
  ELSE Min(Get(edges, Head(ids)).f, MinResidual(edges, Tail(ids)))

CycleOf(g, start) ==
  LET cycle_start == WalkPref(g.pref, start, NumNodes(g))
  IN CycleEdges(g, cycle_start, cycle_start)

cancel_negative_cycle(g, start) ==
  LET cycle_edges == CycleOf(g, start)
      min_cap == MinResidual(g.edges, cycle_edges)
      cycle_cost == SumCost(g.edges, cycle_edges)
  IN [g EXCEPT !.edges = PushAll(@, cycle_edges, min_cap),
               !.mincost = @ + cycle_cost * min_cap]

(***************************************************************************)
(* dijkstra(): label-correcting search over reduced costs.  The binary     *)
(* heap of Reverse((dist, node)) is the set of its entries; pop takes the  *)
(* least pair.  A search that is still popping after PopLimit pops is      *)
(* driven by a negative reduced-cost cycle and never returns (hang).       *)
(***************************************************************************)
HeapMin(heap) ==
  CHOOSE x \in heap : \A y \in heap : x[1] < y[1] \/ (x[1] = y[1] /\ x[2] <= y[2])

PopLimit(g) == (NumNodes(g) + 1) * (Len(g.edges) + 1) * (Len(g.edges) + 1)

RECURSIVE DijkstraRelax(_, _, _, _)
DijkstraRelax(st, d, u, k) ==
  IF k > Len(Get(st.g.adj, u)) THEN st
  ELSE
    LET id == Get(st.g.adj, u)[k]
        e == Get(st.g.edges, id)
        v == e.to
        nd == d + (e.cost - Get(st.g.pi, v) + Get(st.g.pi, u))
    IN IF e.f > 0 /\ Get(st.g.pi, u) # INF /\ Get(st.g.pi, v) # INF /\ nd < Get(st.g.dist, v)
       THEN DijkstraRelax([st EXCEPT !.g.dist = Set(@, v, nd),
                                     !.g.pref = Set(@, v, u),
                                     !.g.con = Set(@, v, id),
                                     !.heap = @ \cup { << nd, v >> }], d, u, k + 1)
       ELSE DijkstraRelax(st, d, u, k + 1)

RECURSIVE DijkstraLoop(_)
DijkstraLoop(st) ==
  IF st.heap = { } THEN st
  ELSE IF st.pops >= PopLimit(st.g) THEN [st EXCEPT !.hang = TRUE]
  ELSE LET top == HeapMin(st.heap)
           st1 == [st EXCEPT !.heap = @ \ { top }, !.pops = @ + 1]
       IN IF top[1] # Get(st.g.dist, top[2])
          THEN DijkstraLoop(st1)
          ELSE DijkstraLoop(DijkstraRelax(st1, top[1], top[2], 1))

DijkstraResult(st, found) ==
  [g |-> IF found /\ ~st.hang
         THEN [st.g EXCEPT !.dist = [i \in 1..NumNodes(st.g) |->
                              st.g.dist[i] - (Get(st.g.pi, SOURCE) - st.g.pi[i])]]
         ELSE st.g,
   found |-> found, hang |-> st.hang]

DijkstraSearched(st) == DijkstraResult(st, Get(st.g.pref, SINK) # USIZE_MAX)

dijkstra(g) ==
  DijkstraSearched(DijkstraLoop(
    [g |-> [g EXCEPT !.pref = Set(Filled(NumNodes(g), USIZE_MAX), SOURCE, SOURCE),
                     !.dist = Set(Filled(NumNodes(g), INF), SOURCE, 0)],
     heap |-> { << 0, SOURCE >> }, pops |-> 0, hang |-> FALSE]))

(***************************************************************************)
(* extend(): bottleneck of the pref path from the sink, push it, add the   *)
(* round's distances to the potentials.  A pref chain from the sink that   *)
(* does not end in a node with pref[u] = u within n steps never ends: the  *)
(* source's walk loops for ever (hang).                                    *)
(***************************************************************************)
RECURSIVE PathEdges(_, _, _)
PathEdges(g, u, fuel) ==
  IF Get(g.pref, u) = u THEN [ids |-> << >>, hang |-> FALSE]
  ELSE IF fuel = 0 THEN [ids |-> << >>, hang |-> TRUE]
  ELSE LET rest == PathEdges(g, Get(g.pref, u), fuel - 1)
       IN [ids |-> << Get(g.con, u) >> \o rest.ids, hang |-> rest.hang]

(* the augmentation counted twice on the path's edge out of the source *)
ExtendBy_twice_at_source(g, ids, w) ==
  [g EXCEPT !.maxflow = @ + w,
            !.mincost = @ + Get(g.dist, SINK) * w,
            !.edges = PushAll(PushEdge(@, ids[Len(ids)], w), ids, w),
            !.pi = [i \in 1..Len(g.pi) |->
                      IF g.dist[i] < INF THEN g.pi[i] + g.dist[i] ELSE g.pi[i]]]

ExtendBy(g, ids, w) ==
  [g EXCEPT !.maxflow = @ + w,
            !.mincost = @ + Get(g.dist, SINK) * w,
            !.edges = PushAll(@, ids, w),
            !.pi = [i \in 1..Len(g.pi) |->
                      IF g.dist[i] < INF THEN g.pi[i] + g.dist[i] ELSE g.pi[i]]]

ExtendAlong(g, path) ==
  IF path.hang THEN [g |-> g, hang |-> TRUE]
  ELSE [g |-> ExtendBy(g, path.ids, MinResidual(g.edges, path.ids)), hang |-> FALSE]

extend(g) == ExtendAlong(g, PathEdges(g, SINK, NumNodes(g)))

(* mincostflow(): the resets before update_flow() *)
MincostflowReset(g) ==
  [g EXCEPT !.con = Filled(NumNodes(g), 0), !.pi = Filled(NumNodes(g), 0),
            !.maxflow = 0, !.mincost = 0]

(* update_flow(): the resizes before phase 1 *)
UpdateFlowResize(g) ==
  [g EXCEPT !.con = @ \o Filled(Max(0, NumNodes(g) - Len(@)), 0),
            !.pi = @ \o Filled(Max(0, NumNodes(g) - Len(@)), 0)]

(***************************************************************************)
(* mincostflow() / update_flow() as one call.  Phase 1 alternates          *)
(* spfa_with_cycle_cancel() and extend(); phase 2 alternates dijkstra()    *)
(* and extend().  hang = the call never returns.                           *)
(***************************************************************************)
RECURSIVE spfa_with_cycle_cancel(_, _)
RECURSIVE SpfaAfterPass(_, _)
SpfaAfterPass(r, sn1) ==
  IF r.cyc # USIZE_MAX
  THEN spfa_with_cycle_cancel(cancel_negative_cycle(r.g, r.cyc), sn1)
  ELSE [g |-> r.g, found |-> Get(r.g.pref, SINK) # USIZE_MAX, hang |-> FALSE, sn |-> sn1]

spfa_with_cycle_cancel(g, sn) ==
  IF << g.edges, g.con >> \in sn
  THEN [g |-> g, found |-> FALSE, hang |-> TRUE, sn |-> sn]
  ELSE SpfaAfterPass(SpfaPass(g), sn \cup { << g.edges, g.con >> })

RECURSIVE Phase2(_)
RECURSIVE Phase2Extended(_)
Phase2Extended(x) == IF x.hang THEN x ELSE Phase2(x.g)

Phase2Searched(r) ==
  IF r.hang THEN [g |-> r.g, hang |-> TRUE]
  ELSE IF ~r.found THEN [g |-> r.g, hang |-> FALSE]
  ELSE Phase2Extended(extend(r.g))

(* while self.dijkstra() { self.extend(); } *)
Phase2(g) == Phase2Searched(dijkstra(g))

RECURSIVE Phase1(_, _)
RECURSIVE Phase1Extended(_, _)
Phase1Extended(x, sn) == IF x.hang THEN x ELSE Phase1(x.g, sn)

Phase1Searched(r) ==
  IF r.hang THEN [g |-> r.g, hang |-> TRUE]
  ELSE IF ~r.found THEN Phase2(r.g)
  ELSE Phase1Extended(extend(r.g), r.sn)

(* while self.spfa_with_cycle_cancel() { self.extend(); }, then phase 2 *)
Phase1(g, sn) == Phase1Searched(spfa_with_cycle_cancel(g, sn))

update_flow(g) == Phase1(UpdateFlowResize(g), { })

mincostflow(g) == update_flow(MincostflowReset(g))

(***************************************************************************)
(* FlowWrapper (flow/wrapper.rs): a MinCostFlow plus the map from node     *)
(* keys to node ids.  A FlowNode is a record with its kind; into_node      *)
(* maps it to its key, or to the reserved source and sink.                 *)
(***************************************************************************)
Wire(t) == [kind |-> "Wire", id |-> 0, t |-> t]

Action(id) == [kind |-> "Action", id |-> id, t |-> 0]

Battery(id, t) == [kind |-> "Battery", id |-> id, t |-> t]

Source == [kind |-> "Source", id |-> 0, t |-> 0]

Sink == [kind |-> "Sink", id |-> 0, t |-> 0]

Network == [kind |-> "Network", id |-> 0, t |-> 0]

Generator == [kind |-> "Generator", id |-> 0, t |-> 0]

NodeKey(x) ==
  CASE x.kind = "Wire" -> << 0, x.t >>
    [] x.kind = "Action" -> << x.id, 0 >>
    [] x.kind = "Battery" -> << x.id + 5, x.t >>
    [] x.kind = "Network" -> << 1, 0 >>
    [] x.kind = "Generator" -> << 2, 0 >>

FlowWrapper_new == [inner |-> MinCostFlow_new, node_map |-> << >>]

(* FlowWrapper::node: the id under key, a new node when the key is new *)
node(w, key) ==
  IF key \in DOMAIN w.node_map
  THEN [w |-> w, id |-> w.node_map[key]]
  ELSE [w |-> [inner |-> new_node(w.inner),
               node_map |-> [k \in DOMAIN w.node_map \cup { key } |->
                               IF k = key THEN NumNodes(w.inner) ELSE w.node_map[k]]],
        id |-> NumNodes(w.inner)]

into_node(x, w) ==
  CASE x.kind = "Source" -> [w |-> w, id |-> SOURCE]
    [] x.kind = "Sink" -> [w |-> w, id |-> SINK]
    [] OTHER -> node(w, NodeKey(x))

(* FlowWrapper::add_edge: u then v become nodes, then the inner add_edge; *)
(* id is the handle returned                                               *)
FlowWrapper_add_edge(w, u, v, cap, cost) ==
  LET a == into_node(u, w)
      b == into_node(v, a.w)
  IN [w |-> [b.w EXCEPT !.inner = add_edge(@, a.id, b.id, cap, cost)],
      id |-> Len(b.w.inner.edges)]

FlowWrapper_new_node(w) == [w EXCEPT !.inner = new_node(@)]

Solved(w, r) ==
  [w |-> [w EXCEPT !.inner = r.g], hang |-> r.hang,
   cost |-> r.g.mincost, flow |-> r.g.maxflow]

FlowWrapper_mincostflow(w) == Solved(w, mincostflow(w.inner))

(***************************************************************************)
(* StackProxy (helper/stack_proxy.rs): a non-empty stack of states; Deref  *)
(* and DerefMut give the last one.                                         *)
(***************************************************************************)
StackProxy_new(initial) == << initial >>

StackProxy_push(stk) == Append(stk, stk[Len(stk)])

(* a pop without the depth check *)
StackProxy_pop_unchecked(stk) ==
  [stack |-> SubSeq(stk, 1, Len(stk) - 1), panic |-> FALSE]

(* pop(): panics, removing nothing, when one state is left *)
StackProxy_pop(stk) ==
  IF Len(stk) > 1
  THEN [stack |-> SubSeq(stk, 1, Len(stk) - 1), panic |-> FALSE]
  ELSE [stack |-> stk, panic |-> TRUE]

StackProxy_deref(stk) == stk[Len(stk)]

(* a push that shares the state instead of cloning it: the write shows in the frame below *)
StackProxy_deref_mut_shared(stk, x) ==
  [i \in 1..Len(stk) |-> IF i >= Len(stk) - 1 THEN x ELSE stk[i]]

StackProxy_deref_mut(stk, x) == [stk EXCEPT ![Len(stk)] = x]

(***************************************************************************)
(* Time (time/mod.rs): a Time is its count of minutes.  The day is cut to  *)
(* a few steps here; the source has 1440.                                  *)
(***************************************************************************)
MINUTES_PER_TIMESTEP == 1

STEPS_PER_DAY == 2

to_timestep(time) == time \div MINUTES_PER_TIMESTEP

from_timestep(timestep) == timestep * MINUTES_PER_TIMESTEP

(***************************************************************************)
(* Option<T>                                                               *)
(***************************************************************************)
None == [some |-> FALSE, value |-> 0]

Some(x) == [some |-> TRUE, value |-> x]

(* HashMap::insert: the new value replaces an old one under the same key *)
Insert(map, k, v) == (k :> v) @@ map

Remove(map, k) == [j \in (DOMAIN map) \ { k } |-> map[j]]

(***************************************************************************)
(* SmartHomeFlowBuilder (optimizer/mod.rs).  A forecast is a sequence of   *)
(* STEPS_PER_DAY values, step t at index t + 1.  first_timestep_fraction   *)
(* is held as a count of FracDen-ths.                                      *)
(*   battery          [id, capacity, initial_level, max_charge, max_output]*)
(*   variable action  [id, start, end, total_consumption, max_consumption] *)
(*   constant action  [id, start_from, end_before, duration, consumption]  *)
(***************************************************************************)
FracDen == 4

(* (x as f32 * fraction).round() as i64, for x >= 0: halves round away from zero *)
RoundScaled(x, frac) == (2 * x * frac + FracDen) \div (2 * FracDen)

FirstStepScaled(x, frac, t) == IF t = 0 THEN RoundScaled(x, frac) ELSE x

BuilderStepSink(r, net, i, cons) ==
  [flow |-> IF Get(cons, i) > 0
            THEN FlowWrapper_add_edge(r.w, Wire(from_timestep(i)), Sink, Get(cons, i), 0).w
            ELSE r.w,
   net |-> Insert(net, from_timestep(i), r.id)]

BuilderStep(acc, i, gen, price, cons) ==
  BuilderStepSink(
    FlowWrapper_add_edge(
      IF Get(gen, i) > 0
      THEN FlowWrapper_add_edge(acc.flow, Generator, Wire(from_timestep(i)), Get(gen, i), 0).w
      ELSE acc.flow,
      Network, Wire(from_timestep(i)), I64_MAX, Get(price, i)),
    acc.net, i, cons)

RECURSIVE BuilderSteps(_, _, _, _, _)
BuilderSteps(acc, i, gen, price, cons) ==
  IF i >= STEPS_PER_DAY THEN acc
  ELSE BuilderSteps(BuilderStep(acc, i, gen, price, cons), i + 1, gen, price, cons)

BuilderOf(acc, frac) ==
  [flow |-> acc.flow,
   blueprint |-> [battery_blueprints |-> << >>,
                  variable_action_blueprints |-> << >>,
                  network_consumption_blueprint |-> acc.net],
   first_timestep_fraction |-> frac]

SmartHomeFlowBuilder_new(gen, price, cons, frac) ==
  BuilderOf(
    BuilderSteps(
      [flow |-> FlowWrapper_add_edge(
                  FlowWrapper_add_edge(FlowWrapper_new, Source, Generator, I64_MAX, 0).w,
                  Source, Network, I64_MAX, 0).w,
       net |-> << >>],
      0, gen, price, cons),
    frac)

RECURSIVE BatteryRates(_, _, _, _)
BatteryRates(w, battery, frac, t) ==
  IF t >= STEPS_PER_DAY THEN w
  ELSE BatteryRates(
         FlowWrapper_add_edge(
           FlowWrapper_add_edge(w, Wire(from_timestep(t)),
                                Battery(battery.id, from_timestep(t)),
                                FirstStepScaled(battery.max_charge, frac, t), 0).w,
           Battery(battery.id, from_timestep(t)), Wire(from_timestep(t)),
           FirstStepScaled(battery.max_output, frac, t), 0).w,
         battery, frac, t + 1)

BatteryPersistenceStep(r, relevant_edges, t) ==
  [flow |-> r.w, relevant_edges |-> Insert(relevant_edges, from_timestep(t + 1), r.id)]

RECURSIVE BatteryPersistence(_, _, _)
BatteryPersistence(acc, battery, t) ==
  IF t >= STEPS_PER_DAY THEN acc
  ELSE BatteryPersistence(
         BatteryPersistenceStep(
           FlowWrapper_add_edge(acc.flow, Battery(battery.id, from_timestep(t)),
                                Battery(battery.id, from_timestep(t + 1)),
                                battery.capacity, 0),
           acc.relevant_edges, t),
         battery, t + 1)

(* a builder that gives the battery's last node an edge to the sink *)
WithBattery_drained(b, acc, battery) ==
  [b EXCEPT !.flow = FlowWrapper_add_edge(acc.flow,
                       Battery(battery.id, from_timestep(STEPS_PER_DAY)), Sink,
                       battery.capacity, 0).w,
            !.blueprint.battery_blueprints =
               Append(@, [battery |-> battery, relevant_edges |-> acc.relevant_edges])]

WithBattery(b, acc, battery) ==
  [b EXCEPT !.flow = acc.flow,
            !.blueprint.battery_blueprints =
               Append(@, [battery |-> battery, relevant_edges |-> acc.relevant_edges])]

add_battery(b, battery) ==
  WithBattery(b,
    BatteryPersistence(
      [flow |-> BatteryRates(
                  FlowWrapper_add_edge(b.flow, Source, Battery(battery.id, from_timestep(0)),
                                       battery.initial_level, 0).w,
                  battery, b.first_timestep_fraction, 0),
       relevant_edges |-> << >>],
      battery, 0),
    battery)

ActionStep(r, relevant_edges, t) ==
  [flow |-> r.w, relevant_edges |-> Insert(relevant_edges, from_timestep(t), r.id)]

RECURSIVE ActionSteps(_, _, _, _)
ActionSteps(acc, action, frac, t) ==
  IF t >= to_timestep(action.end) THEN acc
  ELSE ActionSteps(
         ActionStep(
           FlowWrapper_add_edge(acc.flow, Wire(from_timestep(t)), Action(action.id),
                                FirstStepScaled(action.max_consumption, frac, t), 0),
           acc.relevant_edges, t),
         action, frac, t + 1)

WithAction(b, acc, action) ==
  [b EXCEPT !.flow = FlowWrapper_add_edge(acc.flow, Action(action.id), Sink,
                                          action.total_consumption, 0).w,
            !.blueprint.variable_action_blueprints =
               Append(@, [variable_action |-> action,
                          relevant_edges |-> acc.relevant_edges])]

add_action(b, action) ==
  WithAction(b,
    ActionSteps([flow |-> b.flow, relevant_edges |-> << >>], action,
                b.first_timestep_fraction, to_timestep(action.start)),
    action)

(***************************************************************************)
(* SmartHomeFlow (optimizer/mod.rs)                                        *)
(***************************************************************************)
SmartHomeFlow_new(flow, blueprint) ==
  [flow |-> StackProxy_push(StackProxy_new(flow)),
   constant_actions |-> << >>,
   calc_result |-> None,
   blueprint |-> blueprint]

build(b) == SmartHomeFlow_new(b.flow, b.blueprint)

(* the assertion of AssignedConstantAction::new *)
ValidAssignment(action, start_time) ==
  start_time >= action.start_from /\ start_time + action.duration <= action.end_before

AssignedConstantAction_new(action, start_time) ==
  [action |-> action, start_time |-> start_time]

get_end_time(ca) == ca.start_time + ca.action.duration

add_constant_consumption(h, constant_action) ==
  [h EXCEPT !.constant_actions = Insert(@, constant_action.action.id, constant_action),
            !.calc_result = None]

(* a remove that leaves the cached cost in place *)
remove_constant_consumption_cached(h, id) ==
  [home |-> [h EXCEPT !.constant_actions = Remove(@, id)],
   removed |-> IF id \in DOMAIN h.constant_actions
               THEN Some(h.constant_actions[id]) ELSE None]

remove_constant_consumption(h, id) ==
  [home |-> [h EXCEPT !.constant_actions = Remove(@, id), !.calc_result = None],
   removed |-> IF id \in DOMAIN h.constant_actions
               THEN Some(h.constant_actions[id]) ELSE None]

(* FlowWrapper::get_flow: the used capacity of a forward edge, which is the *)
(* residual its reverse edge has gained                                     *)
get_flow(w, edge_id) == Get(w.inner.edges, Xor1(edge_id)).f

(* the edges of a constant load added without the unit penalty *)
RECURSIVE ConstantActionEdges_free(_, _, _, _)
ConstantActionEdges_free(stk, constant_action, t, end) ==
  IF t >= end THEN stk
  ELSE ConstantActionEdges_free(
         StackProxy_deref_mut(stk,
           FlowWrapper_add_edge(StackProxy_deref(stk), Wire(from_timestep(t)), Sink,
                                constant_action.action.consumption, 0).w),
         constant_action, t + 1, end)

RECURSIVE ConstantActionEdges(_, _, _, _)
ConstantActionEdges(stk, constant_action, t, end) ==
  IF t >= end THEN stk
  ELSE ConstantActionEdges(
         StackProxy_deref_mut(stk,
           FlowWrapper_add_edge(StackProxy_deref(stk), Wire(from_timestep(t)), Sink,
                                constant_action.action.consumption, 1).w),
         constant_action, t + 1, end)

(* the loop of calc_flow left after the constant action the HashMap yields *)
(* first                                                                    *)
AllConstantActionEdges_first_only(stk, constant_actions, order) ==
  IF order = << >> THEN stk
  ELSE ConstantActionEdges(stk, constant_actions[Head(order)],
                           to_timestep(constant_actions[Head(order)].start_time),
                           to_timestep(get_end_time(constant_actions[Head(order)])))

(* the loop of calc_flow over the map of constant actions, in the order the *)
(* HashMap yields them                                                       *)
RECURSIVE AllConstantActionEdges(_, _, _)
AllConstantActionEdges(stk, constant_actions, order) ==
  IF order = << >> THEN stk
  ELSE AllConstantActionEdges(
         ConstantActionEdges(stk, constant_actions[Head(order)],
                             to_timestep(constant_actions[Head(order)].start_time),
                             to_timestep(get_end_time(constant_actions[Head(order)]))),
         constant_actions, Tail(order))

CalcFlowSolved(h, stk, r, panic) ==
  [home |-> [h EXCEPT !.flow = StackProxy_deref_mut(stk, r.w),
                      !.calc_result = Some(r.cost)],
   calculated |-> TRUE,
   hang |-> r.hang,
   panic |-> panic,
   flow_value |-> r.flow,
   presolve |-> StackProxy_deref(stk)]

CalcFlowPrepared(h, stk, panic) ==
  CalcFlowSolved(h, stk, FlowWrapper_mincostflow(StackProxy_deref(stk)), panic)

(* calc_flow without the push(): the edges go onto the frame pop() left *)
CalcFlowPopped_no_push(h, popped, order) ==
  CalcFlowPrepared(h,
    AllConstantActionEdges(popped.stack, h.constant_actions, order),
    popped.panic)

CalcFlowPopped(h, popped, order) ==
  CalcFlowPrepared(h,
    AllConstantActionEdges(StackProxy_push(popped.stack), h.constant_actions, order),
    popped.panic)

(* calc_flow without the pop(): the overlay of the last solve is kept *)
calc_flow_no_pop(h, order) ==
  CalcFlowPrepared(h, AllConstantActionEdges(h.flow, h.constant_actions, order), FALSE)

calc_flow(h, order) == CalcFlowPopped(h, StackProxy_pop(h.flow), order)

(* the orders a HashMap may yield its keys in *)
IterationOrders(map) ==
  { order \in [1..Cardinality(DOMAIN map) -> DOMAIN map] :
      \A i, j \in 1..Cardinality(DOMAIN map) : i # j => order[i] # order[j] }

NoCalc(h) ==
  [home |-> h, calculated |-> FALSE, hang |-> FALSE, panic |-> FALSE, flow_value |-> 0,
   presolve |-> << >>]

EnsureCalculated(h, order) ==
  IF ~h.calc_result.some THEN calc_flow(h, order) ELSE NoCalc(h)

(* get_cost(): the value returned is calc_result.unwrap() of the home it leaves *)
get_cost(h, order) == EnsureCalculated(h, order)

(* Blueprint::construct *)
EdgeFlows(relevant_edges, from) ==
  [time \in DOMAIN relevant_edges |-> get_flow(from, relevant_edges[time])]

DaySteps == { from_timestep(t) : t \in 0..(STEPS_PER_DAY - 1) }

(* construct reading what is left of the persistence edges, not what was used *)
BatteryBlueprint_construct_residual(bp, from) ==
  LET edge_flows == Insert([time \in DOMAIN bp.relevant_edges |->
                              Get(from.inner.edges, bp.relevant_edges[time]).f],
                           from_timestep(0), bp.battery.initial_level)
  IN [battery |-> bp.battery,
      panic |-> ~(DaySteps \subseteq DOMAIN edge_flows),
      charge_level |-> [t \in DaySteps \cap DOMAIN edge_flows |-> edge_flows[t]]]

BatteryBlueprint_construct(bp, from) ==
  LET edge_flows == Insert(EdgeFlows(bp.relevant_edges, from), from_timestep(0),
                           bp.battery.initial_level)
  IN [battery |-> bp.battery,
      panic |-> ~(DaySteps \subseteq DOMAIN edge_flows),
      charge_level |-> [t \in DaySteps \cap DOMAIN edge_flows |-> edge_flows[t]]]

VariableActionBlueprint_construct(bp, from) ==
  LET edge_flows == EdgeFlows(bp.relevant_edges, from)
      window == to_timestep(bp.variable_action.start)..(to_timestep(bp.variable_action.end) - 1)
  IN [action |-> bp.variable_action,
      panic |-> ~({ from_timestep(t) : t \in window } \subseteq DOMAIN edge_flows),
      consumption |-> [i \in 1..Cardinality(window) |->
                         IF from_timestep(to_timestep(bp.variable_action.start) + i - 1)
                              \in DOMAIN edge_flows
                         THEN edge_flows[from_timestep(to_timestep(bp.variable_action.start) + i - 1)]
                         ELSE 0]]

NetworkConsumptionBlueprint_construct(relevant_edges, from) ==
  [t \in DaySteps \cap DOMAIN relevant_edges |-> get_flow(from, relevant_edges[t])]

(* collect() into a HashMap keyed by id: a later entry replaces an earlier one *)
RECURSIVE CollectById(_, _)
CollectById(entries, map) ==
  IF entries = << >> THEN map
  ELSE CollectById(Tail(entries), Insert(map, Head(entries).id, Head(entries).value))

SmartHomeBlueprint_construct(blueprint, from) ==
  [constant_actions |-> << >>,
   variable_actions |->
     CollectById([i \in 1..Len(blueprint.variable_action_blueprints) |->
                    [id |-> blueprint.variable_action_blueprints[i].variable_action.id,
                     value |-> VariableActionBlueprint_construct(
                                 blueprint.variable_action_blueprints[i], from)]], << >>),
   batteries |->
     CollectById([i \in 1..Len(blueprint.battery_blueprints) |->
                    [id |-> blueprint.battery_blueprints[i].battery.id,
                     value |-> BatteryBlueprint_construct(
                                 blueprint.battery_blueprints[i], from)]], << >>),
   network_consumption |->
     NetworkConsumptionBlueprint_construct(blueprint.network_consumption_blueprint, from)]

ScheduleOf(c) ==
  [calc |-> c,
   schedule |-> SmartHomeBlueprint_construct(c.home.blueprint, StackProxy_deref(c.home.flow))]

get_schedule(h, order) == ScheduleOf(EnsureCalculated(h, order))

(***************************************************************************)
(* State (simulated_annealing/state.rs).  A context is [gen, price, cons,  *)
(* batteries, actions, constant_actions].                                  *)
(***************************************************************************)
with_start_time(action, start_time) == AssignedConstantAction_new(action, start_time)

(* the collect() of State::new: every constant action at its start_from *)
RECURSIVE AssignAtStartFrom(_, _)
AssignAtStartFrom(actions, map) ==
  IF actions = << >> THEN map
  ELSE AssignAtStartFrom(Tail(actions),
         Insert(map, Head(actions).id,
                AssignedConstantAction_new(Head(actions), Head(actions).start_from)))

RECURSIVE add_batteries(_, _)
add_batteries(b, batteries) ==
  IF batteries = << >> THEN b
  ELSE add_batteries(add_battery(b, Head(batteries)), Tail(batteries))

RECURSIVE add_actions(_, _)
add_actions(b, variable_actions) ==
  IF variable_actions = << >> THEN b
  ELSE add_actions(add_action(b, Head(variable_actions)), Tail(variable_actions))

RECURSIVE AddAllConstantConsumption(_, _, _)
AddAllConstantConsumption(h, constant_actions, order) ==
  IF order = << >> THEN h
  ELSE AddAllConstantConsumption(add_constant_consumption(h, constant_actions[Head(order)]),
                                 constant_actions, Tail(order))

(* order: the order the map of constant actions is iterated in; the builder *)
(* of this State::new takes no first_timestep_fraction, nothing is scaled   *)
StateOf(context, constant_actions, order) ==
  [constant_actions |-> constant_actions,
   constant_action_ids |-> order,
   smart_home_flow |->
     AddAllConstantConsumption(
       build(add_actions(add_batteries(
               SmartHomeFlowBuilder_new(context.gen, context.price, context.cons, FracDen),
               context.batteries), context.actions)),
       constant_actions, order)]

State_new(context, order) ==
  StateOf(context, AssignAtStartFrom(context.constant_actions, << >>), order)

(* an add that reaches the flow and not the map of the State *)
State_add_constant_action_flow_only(s, action) ==
  [s EXCEPT !.smart_home_flow = add_constant_consumption(@, action)]

State_add_constant_action(s, action) ==
  [s EXCEPT !.smart_home_flow = add_constant_consumption(@, action),
            !.constant_actions = Insert(@, action.action.id, action)]

RemovedFrom(s, action_id, r) ==
  [state |-> [s EXCEPT !.constant_actions = Remove(@, action_id),
                       !.smart_home_flow = r.home],
   removed |-> r.removed]

State_remove_constant_action(s, action_id) ==
  RemovedFrom(s, action_id, remove_constant_consumption(s.smart_home_flow, action_id))

StateCalculated(s, c) ==
  [state |-> [s EXCEPT !.smart_home_flow = c.home], calc |-> c]

State_get_cost(s, order) == StateCalculated(s, get_cost(s.smart_home_flow, order))

StateScheduled(s, r) ==
  [state |-> [s EXCEPT !.smart_home_flow = r.calc.home], calc |-> r.calc,
   schedule |-> [r.schedule EXCEPT !.constant_actions =
                   { s.constant_actions[id] : id \in DOMAIN s.constant_actions }]]

State_get_schedule(s, order) == StateScheduled(s, get_schedule(s.smart_home_flow, order))

(***************************************************************************)
(* RandomMoveChange (simulated_annealing/change/random_move.rs): a change  *)
(* is [action_id, old_time, new_time].                                     *)
(***************************************************************************)
(* remove(..).unwrap(), with_start_time (which asserts the bounds), add *)
MovedTo(r, time) ==
  IF ~r.removed.some THEN [state |-> r.state, panic |-> TRUE]
  ELSE IF ~ValidAssignment(r.removed.value.action, time)
  THEN [state |-> r.state, panic |-> TRUE]
  ELSE [state |-> State_add_constant_action(r.state,
                    with_start_time(r.removed.value.action, time)),
        panic |-> FALSE]

(* an apply that removes the action and does not add it again *)
RandomMoveChange_apply_remove_only(change, s) ==
  [state |-> State_remove_constant_action(s, change.action_id).state, panic |-> FALSE]

RandomMoveChange_apply(change, s) ==
  MovedTo(State_remove_constant_action(s, change.action_id), change.new_time)

(* an undo that moves the action to new_time again *)
RandomMoveChange_undo_forward(change, s) ==
  MovedTo(State_remove_constant_action(s, change.action_id), change.new_time)

RandomMoveChange_undo(change, s) ==
  MovedTo(State_remove_constant_action(s, change.action_id), change.old_time)

Range(seq) == { seq[i] : i \in 1..Len(seq) }

(* sample_centered_int(lo, hi, center, sigma, rng): some integer of [lo, hi] *)
sample_centered_int(lo, hi) == lo..hi

(* new_random: what a call may end in.  "panic": no constant action to     *)
(* choose from; "hang": the chosen action has one legal start, the while   *)
(* loop never leaves; "change": a change to another start                  *)
NewRandomFor(s, action_id) ==
  LET action == s.constant_actions[action_id]
      old_time == action.start_time
      start_bound == action.action.start_from
      end_bound == action.action.end_before - action.action.duration
  IN IF sample_centered_int(start_bound, end_bound) \subseteq { old_time }
     THEN { [kind |-> "hang", change |-> << >>] }
     ELSE { [kind |-> "change",
             change |-> [action_id |-> action_id, old_time |-> old_time, new_time |-> n]] :
              n \in sample_centered_int(start_bound, end_bound) \ { old_time } }

RandomMoveChange_new_random(s) ==
  IF s.constant_action_ids = << >>
  THEN { [kind |-> "panic", change |-> << >>] }
  ELSE UNION { NewRandomFor(s, id) : id \in Range(s.constant_action_ids) }

(***************************************************************************)
(* MultiChange: k random moves drawn one after the other against the same  *)
(* state, applied in order and undone in reverse order.                    *)
(***************************************************************************)
RECURSIVE MultiChange_new_random(_, _)
MultiChange_new_random(s, k) ==
  IF k = 0 THEN { [kind |-> "change", changes |-> << >>] }
  ELSE UNION { IF first.kind # "change"
               THEN { [kind |-> first.kind, changes |-> << >>] }
               ELSE { [kind |-> rest.kind,
                       changes |-> IF rest.kind = "change"
                                   THEN << first.change >> \o rest.changes ELSE << >>] :
                        rest \in MultiChange_new_random(s, k - 1) } :
               first \in RandomMoveChange_new_random(s) }

RECURSIVE MultiChange_apply(_, _)
MultiApplied(r, changes) ==
  IF r.panic THEN r ELSE MultiChange_apply(changes, r.state)

MultiChange_apply(changes, s) ==
  IF changes = << >> THEN [state |-> s, panic |-> FALSE]
  ELSE MultiApplied(RandomMoveChange_apply(Head(changes), s), Tail(changes))

RECURSIVE MultiChange_undo(_, _)
MultiUndone(r, changes) ==
  IF r.panic THEN r ELSE MultiChange_undo(changes, r.state)

MultiChange_undo(changes, s) ==
  IF changes = << >> THEN [state |-> s, panic |-> FALSE]
  ELSE MultiUndone(RandomMoveChange_undo(changes[Len(changes)], s),
                   SubSeq(changes, 1, Len(changes) - 1))

(***************************************************************************)
(* State.                                                                  *)
(*   mcf    a MinCostFlow under construction or being solved               *)
(*   pc     where the caller of the engine stands: "build", then the       *)
(*          phases of update_flow ("spfa", "cancel", "extend1",            *)
(*          "dijkstra", "extend2"), then "done"; "hang" when the call      *)
(*          never returns                                                  *)
(*   cyc    the node handed to cancel_negative_cycle                       *)
(*   built  the add_edge calls made so far, as [u, v, cap, cost]           *)
(*   seen   the (edges, con) pairs phase 1 started an SPFA pass from       *)
(*   ret    the pair returned by mincostflow()                             *)
(*   stack  a StackProxy<FlowWrapper>                                      *)
(*   saved  for each push still on the stack, the stack as it was before   *)
(*          that push                                                      *)
(*   hist   the last StackProxy call: its name, the stack before it and,   *)
(*          for a pop, the stack before the matching push                  *)
(*   panicked  a panic ended the program                                   *)
(***************************************************************************)
VARIABLES mcf, pc, cyc, built, seen, ret, stack, saved, hist, panicked,
          ctx, home, phase, out, solved, state, drv, move

mcmfVars == << mcf, pc, cyc, built, seen, ret >>

stackVars == << stack, saved, hist, panicked >>

homeVars == << ctx, home, phase, out, solved >>

saVars == << state, drv, move >>

vars == << mcf, pc, cyc, built, seen, ret, stack, saved, hist, panicked,
          ctx, home, phase, out, solved, state, drv, move >>

NoRet == [cost |-> 0, flow |-> 0]

NoHist == [op |-> "none", prev |-> << >>, expect |-> << >>]

NoOut == [op |-> "none", value |-> 0, schedule |-> << >>]

NoSolve == [flow_value |-> 0, presolve |-> << >>, assigned |-> << >>]

(* no engine of its own, no stack of its own, no smart home *)
IdleMCMF ==
  /\ mcf = MinCostFlow_new
  /\ pc = "build"
  /\ cyc = USIZE_MAX
  /\ built = << >>
  /\ seen = { }
  /\ ret = NoRet

IdleStack ==
  /\ stack = StackProxy_new(FlowWrapper_new)
  /\ saved = << >>
  /\ hist = NoHist
  /\ panicked = FALSE

NoIteration ==
  [changes |-> << >>, old_cost |-> 0, new_cost |-> 0, cost_diff |-> 0, undone |-> FALSE]

NoDriver ==
  [pc |-> "off", old_cost |-> 0, iterations |-> 0, last |-> NoIteration, result |-> << >>]

NoMove == [phase |-> "off", changes |-> << >>, base |-> << >>, base_cost |-> None]

IdleSA ==
  /\ state = << >>
  /\ drv = NoDriver
  /\ move = NoMove

IdleHome ==
  /\ ctx = << >>
  /\ home = << >>
  /\ phase = "off"
  /\ out = NoOut
  /\ solved = NoSolve

InitMCMF == IdleMCMF /\ IdleStack /\ IdleHome /\ IdleSA

NewNode ==
  /\ pc = "build"
  /\ NumNodes(mcf) < MaxNodes
  /\ mcf' = new_node(mcf)
  /\ UNCHANGED << pc, cyc, built, seen, ret, stackVars, homeVars, saVars >>

AddEdge ==
  /\ pc = "build"
  /\ Len(built) < MaxEdges
  /\ \E u \in 0..(NumNodes(mcf) - 1), v \in 0..(NumNodes(mcf) - 1),
        cap \in 0..MaxCap, cost \in 0..MaxCost :
       /\ mcf' = add_edge(mcf, u, v, cap, cost)
       /\ built' = Append(built, [u |-> u, v |-> v, cap |-> cap, cost |-> cost])
  /\ UNCHANGED << pc, cyc, seen, ret, stackVars, homeVars, saVars >>

(* mincostflow() up to the first SPFA pass of update_flow() *)
Mincostflow ==
  /\ pc = "build"
  /\ mcf' = UpdateFlowResize(MincostflowReset(mcf))
  /\ pc' = "spfa"
  /\ UNCHANGED << cyc, built, seen, ret, stackVars, homeVars, saVars >>

(* spfa_with_cycle_cancel() up to its cancel_negative_cycle call or its return. *)
(* Phase 1 reads only edges, adj and con; starting a pass from a pair it has    *)
(* started from before repeats for ever.                                        *)
SpfaStep ==
  /\ pc = "spfa"
  /\ IF << mcf.edges, mcf.con >> \in seen
     THEN /\ pc' = "hang"
          /\ UNCHANGED << mcf, cyc, seen >>
     ELSE LET r == SpfaPass(mcf)
          IN /\ mcf' = r.g
             /\ cyc' = r.cyc
             /\ seen' = seen \cup { << mcf.edges, mcf.con >> }
             /\ pc' = IF r.cyc # USIZE_MAX THEN "cancel"
                      ELSE IF Get(r.g.pref, SINK) # USIZE_MAX THEN "extend1"
                      ELSE "dijkstra"
  /\ UNCHANGED << built, ret, stackVars, homeVars, saVars >>

(* cancel_negative_cycle(), then the restart of the SPFA *)
CancelStep ==
  /\ pc = "cancel"
  /\ mcf' = cancel_negative_cycle(mcf, cyc)
  /\ pc' = "spfa"
  /\ cyc' = USIZE_MAX
  /\ UNCHANGED << built, seen, ret, stackVars, homeVars, saVars >>

(* extend() in the body of either while loop of update_flow() *)
ExtendStep ==
  /\ pc \in { "extend1", "extend2" }
  /\ LET r == extend(mcf)
     IN /\ mcf' = r.g
        /\ pc' = IF r.hang THEN "hang"
                 ELSE IF pc = "extend1" THEN "spfa" ELSE "dijkstra"
  /\ UNCHANGED << cyc, built, seen, ret, stackVars, homeVars, saVars >>

(* dijkstra() as the condition of the second while loop; on false the call returns *)
DijkstraStep ==
  /\ pc = "dijkstra"
  /\ LET r == dijkstra(mcf)
     IN /\ mcf' = r.g
        /\ pc' = IF r.hang THEN "hang" ELSE IF r.found THEN "extend2" ELSE "done"
        /\ ret' = IF ~r.hang /\ ~r.found
                  THEN [cost |-> r.g.mincost, flow |-> r.g.maxflow] ELSE ret
  /\ UNCHANGED << cyc, built, seen, stackVars, homeVars, saVars >>

NextMCMF ==
  \/ NewNode
  \/ AddEdge
  \/ Mincostflow
  \/ SpfaStep
  \/ CancelStep
  \/ ExtendStep
  \/ DijkstraStep

SpecMCMF == InitMCMF /\ [][NextMCMF]_vars

(***************************************************************************)
(* Reference values for a built graph: every feasible flow is enumerated.  *)
(***************************************************************************)
RECURSIVE NetInto(_, _, _, _)
NetInto(E, f, v, i) ==
  IF i = 0 THEN 0
  ELSE NetInto(E, f, v, i - 1) + (IF E[i].v = v THEN f[i] ELSE 0)
                               - (IF E[i].u = v THEN f[i] ELSE 0)

RECURSIVE FlowCost(_, _, _)
FlowCost(E, f, i) ==
  IF i = 0 THEN 0 ELSE FlowCost(E, f, i - 1) + E[i].cost * f[i]

FeasibleFlows(E, n) ==
  { f \in [1..Len(E) -> 0..MaxCap] :
      /\ \A i \in 1..Len(E) : f[i] <= E[i].cap
      /\ \A v \in 2..(n - 1) : NetInto(E, f, v, Len(E)) = 0 }

FlowValue(E, f) == NetInto(E, f, SINK, Len(E))

MaxFlowValue(E, n) ==
  LET F == FeasibleFlows(E, n)
  IN CHOOSE x \in { FlowValue(E, f) : f \in F } :
       \A f \in F : FlowValue(E, f) <= x

MinCostAtValue(E, n, x) ==
  LET F == { f \in FeasibleFlows(E, n) : FlowValue(E, f) = x }
  IN CHOOSE c \in { FlowCost(E, f, Len(E)) : f \in F } :
       \A f \in F : c <= FlowCost(E, f, Len(E))

(***************************************************************************)
(* C1: for every graph built with new(), new_node() and add_edge(u, v,     *)
(* cap >= 0, cost >= 0), parallel edges of different cost included,        *)
(* mincostflow() returns the maximum source-to-sink flow value and the     *)
(* least total cost among the feasible flows of that value.                *)
(***************************************************************************)
C1_ReturnsMinCostMaxFlow ==
  pc = "done" =>
    /\ ret.flow = MaxFlowValue(built, NumNodes(mcf))
    /\ ret.cost = MinCostAtValue(built, NumNodes(mcf), ret.flow)

(***************************************************************************)
(* The snapshot stack on its own: push, pop and mutations of the top       *)
(* through DerefMut (new nodes, added edges, a solve).                     *)
(***************************************************************************)
MaxDepth == 3
MaxStackEdges == 2

InitStack == InitMCMF

Push ==
  /\ ~panicked
  /\ Len(stack) < MaxDepth
  /\ stack' = StackProxy_push(stack)
  /\ saved' = Append(saved, stack)
  /\ hist' = [op |-> "push", prev |-> stack, expect |-> << >>]
  /\ UNCHANGED << panicked, mcmfVars, homeVars, saVars >>

Pop ==
  /\ ~panicked
  /\ LET r == StackProxy_pop(stack)
     IN /\ stack' = r.stack
        /\ panicked' = r.panic
        /\ saved' = IF saved = << >> THEN saved ELSE SubSeq(saved, 1, Len(saved) - 1)
        /\ hist' = [op |-> IF r.panic THEN "pop_panic" ELSE "pop", prev |-> stack,
                    expect |-> IF saved = << >> THEN << >> ELSE saved[Len(saved)]]
  /\ UNCHANGED << mcmfVars, homeVars, saVars >>

MutNewNode ==
  /\ ~panicked
  /\ NumNodes(StackProxy_deref(stack).inner) < MaxNodes
  /\ stack' = StackProxy_deref_mut(stack, FlowWrapper_new_node(StackProxy_deref(stack)))
  /\ hist' = [op |-> "mutate", prev |-> stack, expect |-> << >>]
  /\ UNCHANGED << saved, panicked, mcmfVars, homeVars, saVars >>

MutAddEdge ==
  /\ ~panicked
  /\ Len(StackProxy_deref(stack).inner.edges) < 2 * MaxStackEdges
  /\ \E u \in { Source, Wire(0) }, v \in { Wire(0), Sink }, cost \in 0..1 :
       stack' = StackProxy_deref_mut(stack,
                  FlowWrapper_add_edge(StackProxy_deref(stack), u, v, 1, cost).w)
  /\ hist' = [op |-> "mutate", prev |-> stack, expect |-> << >>]
  /\ UNCHANGED << saved, panicked, mcmfVars, homeVars, saVars >>

SolvedTop(r) ==
  /\ ~r.hang
  /\ stack' = StackProxy_deref_mut(stack, r.w)

MutSolve ==
  /\ ~panicked
  /\ SolvedTop(FlowWrapper_mincostflow(StackProxy_deref(stack)))
  /\ hist' = [op |-> "mutate", prev |-> stack, expect |-> << >>]
  /\ UNCHANGED << saved, panicked, mcmfVars, homeVars, saVars >>

NextStack ==
  \/ Push
  \/ Pop
  \/ MutNewNode
  \/ MutAddEdge
  \/ MutSolve

SpecStack == InitStack /\ [][NextStack]_vars

(***************************************************************************)
(* C9: push(), then any mutations of the top (new nodes, added edges, the  *)
(* residual changes of a solve), then pop() leaves the stack equal to its  *)
(* state before the push: same depth, every remaining frame unchanged.     *)
(***************************************************************************)
C9_PushMutatePopRestores ==
  hist.op = "pop" => stack = hist.expect

(* a pop that discarded a top holding an edge the restored top lacks and a solved flow *)
C9_Witness ==
  /\ hist.op = "pop"
  /\ Len(StackProxy_deref(hist.prev).inner.edges) > Len(StackProxy_deref(stack).inner.edges)
  /\ StackProxy_deref(hist.prev).inner.maxflow > 0
  /\ StackProxy_deref(stack).inner.maxflow = 0

(***************************************************************************)
(* C10: the depth of a StackProxy is always at least 1; push() adds one    *)
(* frame equal to the previous top; pop() at depth above 1 removes exactly *)
(* the top; pop() at depth 1 panics and removes nothing.                   *)
(***************************************************************************)
C10_DepthAndPushPop ==
  /\ Len(stack) >= 1
  /\ hist.op = "push" =>
       /\ Len(stack) = Len(hist.prev) + 1
       /\ stack = Append(hist.prev, hist.prev[Len(hist.prev)])
  /\ hist.op = "pop" =>
       /\ Len(hist.prev) > 1
       /\ stack = SubSeq(hist.prev, 1, Len(hist.prev) - 1)
  /\ hist.op = "pop_panic" => Len(hist.prev) = 1 /\ stack = hist.prev
  /\ panicked <=> hist.op = "pop_panic"
  /\ (hist.op \in { "pop", "pop_panic" } /\ Len(hist.prev) = 1) => panicked

(* the panic of a pop at depth 1, on a stack that was pushed and popped before *)
C10_Witness ==
  /\ panicked
  /\ hist.op = "pop_panic"
  /\ Len(stack) = 1
  /\ Len(stack[1].inner.edges) > 0

(***************************************************************************)
(* The smart-home flow: a builder is created from forecasts, batteries and *)
(* variable actions are added, build() makes the SmartHomeFlow, and then   *)
(* constant loads are added and removed and costs and schedules are asked  *)
(* for.                                                                    *)
(***************************************************************************)
MaxPrice == 1
MaxGen == 1
MaxUncontrolled == 1
MaxBatteries == 1
MaxActions == 1
MaxConstantActions == 2
MaxCapacity == 1
MaxRate == 1
MaxTotal == 1
MaxDuration == 1

Forecasts(max) == [1..STEPS_PER_DAY -> 0..max]

Fractions == { 1, FracDen }

(* Battery::new asserts initial_level <= capacity *)
Batteries ==
  { [id |-> 0, capacity |-> c, initial_level |-> l, max_charge |-> r, max_output |-> r] :
      c \in 1..MaxCapacity, l \in 0..MaxCapacity, r \in 1..MaxRate }

ValidBattery(battery) == battery.initial_level <= battery.capacity

(* VariableAction::new asserts start < end; the ids are the caller's: 3 is *)
(* the key of no other node, 1 is the first component of Network's key     *)
VariableActions ==
  { [id |-> i, start |-> from_timestep(s), end |-> from_timestep(e),
     total_consumption |-> c, max_consumption |-> m] :
      i \in { 1, 3 }, s \in 0..STEPS_PER_DAY, e \in 0..STEPS_PER_DAY,
      c \in 1..MaxTotal, m \in 1..MaxRate }

ValidVariableAction(action) == action.start < action.end

(* ConstantAction::new asserts start_from + duration <= end_before *)
ConstantActions ==
  { [id |-> i, start_from |-> from_timestep(0), end_before |-> from_timestep(STEPS_PER_DAY),
     duration |-> from_timestep(d), consumption |-> 1] :
      i \in 1..MaxConstantActions, d \in 1..MaxDuration }

InitHome ==
  /\ IdleMCMF
  /\ IdleStack
  /\ \E gen \in Forecasts(MaxGen), price \in Forecasts(MaxPrice),
        cons \in Forecasts(MaxUncontrolled), frac \in Fractions :
       /\ ctx = [gen |-> gen, price |-> price, cons |-> cons, frac |-> frac,
                 batteries |-> << >>, actions |-> << >>]
       /\ home = SmartHomeFlowBuilder_new(gen, price, cons, frac)
  /\ phase = "builder"
  /\ out = NoOut
  /\ solved = NoSolve
  /\ IdleSA

AddBattery ==
  /\ phase = "builder"
  /\ Len(ctx.batteries) < MaxBatteries
  /\ ctx.actions = << >>
  /\ \E battery \in Batteries :
       /\ ValidBattery(battery)
       /\ home' = add_battery(home, battery)
       /\ ctx' = [ctx EXCEPT !.batteries = Append(@, battery)]
  /\ UNCHANGED << phase, out, solved, mcmfVars, stackVars, saVars >>

AddAction ==
  /\ phase = "builder"
  /\ Len(ctx.actions) < MaxActions
  /\ \E action \in VariableActions :
       /\ ValidVariableAction(action)
       /\ home' = add_action(home, action)
       /\ ctx' = [ctx EXCEPT !.actions = Append(@, action)]
  /\ UNCHANGED << phase, out, solved, mcmfVars, stackVars, saVars >>

Build ==
  /\ phase = "builder"
  /\ home' = build(home)
  /\ phase' = "built"
  /\ UNCHANGED << ctx, out, solved, mcmfVars, stackVars, saVars >>

AddConstantConsumption ==
  /\ phase = "built"
  /\ out.op = "none"
  /\ \E action \in ConstantActions, start_time \in 0..from_timestep(STEPS_PER_DAY) :
       /\ ValidAssignment(action, start_time)
       /\ home' = add_constant_consumption(home,
                    AssignedConstantAction_new(action, start_time))
  /\ UNCHANGED << ctx, phase, out, solved, mcmfVars, stackVars, saVars >>

Returned(c, op, schedule) ==
  /\ home' = c.home
  /\ phase' = IF c.hang THEN "hang" ELSE IF c.panic THEN "panic" ELSE "built"
  /\ out' = IF c.hang \/ c.panic THEN [NoOut EXCEPT !.op = "failed"]
            ELSE [op |-> op, value |-> c.home.calc_result.value, schedule |-> schedule]
  /\ solved' = IF c.calculated
               THEN [flow_value |-> c.flow_value, presolve |-> c.presolve,
                     assigned |-> home.constant_actions]
               ELSE solved

GetCost ==
  /\ phase = "built"
  /\ \E order \in IterationOrders(home.constant_actions) :
       Returned(get_cost(home, order), "get_cost", << >>)
  /\ UNCHANGED << ctx, mcmfVars, stackVars, saVars >>

ScheduleReturned(r) == Returned(r.calc, "get_schedule", r.schedule)

GetSchedule ==
  /\ phase = "built"
  /\ \E order \in IterationOrders(home.constant_actions) :
       ScheduleReturned(get_schedule(home, order))
  /\ UNCHANGED << ctx, mcmfVars, stackVars, saVars >>

NextHome ==
  \/ AddBattery
  \/ AddAction
  \/ Build
  \/ AddConstantConsumption
  \/ GetCost
  \/ GetSchedule

SpecHome == InitHome /\ [][NextHome]_vars

(***************************************************************************)
(* run_simulated_annealing (simulated_annealing/mod.rs).  drv.pc is where  *)
(* the call stands: "start", "loop", "done" (it returned drv.result),      *)
(* "panic", or "hang" (it never returns).  The temperature starts at 10    *)
(* and is multiplied by 0.99 while above 0.1; the iterations it allows are *)
(* cut to MaxIter here.                                                    *)
(***************************************************************************)
MaxIter == 2

MultiChangeParts == 2

Uniform(x) == [t \in 1..STEPS_PER_DAY |-> x]

OptionalOne(S) == { << >> } \cup { << x >> : x \in S }

Contexts ==
  { [gen |-> Uniform(g), price |-> price, cons |-> Uniform(u),
     batteries |-> batteries, actions |-> actions, constant_actions |-> constant_actions] :
      g \in 0..MaxGen, price \in Forecasts(MaxPrice), u \in 0..MaxUncontrolled,
      batteries \in OptionalOne({ b \in Batteries : ValidBattery(b) }),
      actions \in OptionalOne({ a \in VariableActions : ValidVariableAction(a) /\ a.id = 3 }),
      constant_actions \in { c \in UNION { [1..n -> ConstantActions] : n \in 0..MaxConstantActions } :
                               \A i, j \in 1..Len(c) : i < j => c[i].id < c[j].id } }

InitSA ==
  /\ IdleMCMF
  /\ IdleStack
  /\ ctx \in Contexts
  /\ home = << >>
  /\ phase = "off"
  /\ out = NoOut
  /\ solved = NoSolve
  /\ state = << >>
  /\ drv = [NoDriver EXCEPT !.pc = "start"]
  /\ move = NoMove

PcAfter(c, pc1) == IF c.hang THEN "hang" ELSE IF c.panic THEN "panic" ELSE pc1

Started(r) ==
  /\ state' = r.state
  /\ drv' = [drv EXCEPT !.pc = PcAfter(r.calc, "loop"),
                        !.old_cost = r.state.smart_home_flow.calc_result.value]

(* State::new(context) and the first get_cost() *)
SAStart ==
  /\ drv.pc = "start"
  /\ \E order \in IterationOrders(AssignAtStartFrom(ctx.constant_actions, << >>)) :
       Started(State_get_cost(State_new(ctx, order), order))
  /\ UNCHANGED << move, mcmfVars, stackVars, homeVars >>

(* the branches at mod.rs 84-96: an improvement is kept; otherwise the move is  *)
(* kept when the sample drawn is below exp(-cost_diff / temperature), which is  *)
(* 1 for cost_diff = 0 and lies strictly between 0 and 1 above it               *)
Accepted_reversed(cost_diff, sample_below) ==
  IF cost_diff > 0 THEN TRUE ELSE cost_diff = 0 \/ sample_below

Accepted(cost_diff, sample_below) ==
  IF cost_diff < 0 THEN TRUE ELSE cost_diff = 0 \/ sample_below

Decided(changes, r, new_cost, keep) ==
  /\ state' = IF keep THEN r.state ELSE MultiChange_undo(changes, r.state).state
  /\ drv' = [drv EXCEPT
               !.pc = PcAfter(r.calc, "loop"),
               !.old_cost = IF keep THEN new_cost ELSE @,
               !.iterations = @ + 1,
               !.last = [changes |-> changes, old_cost |-> drv.old_cost,
                         new_cost |-> new_cost, cost_diff |-> new_cost - drv.old_cost,
                         undone |-> ~keep]]

Evaluated(changes, r) ==
  \E sample_below \in BOOLEAN :
     Decided(changes, r, r.state.smart_home_flow.calc_result.value,
             Accepted(r.state.smart_home_flow.calc_result.value - drv.old_cost, sample_below))

Applied(changes, a, order) ==
  IF a.panic
  THEN /\ drv' = [drv EXCEPT !.pc = "panic"]
       /\ state' = a.state
  ELSE Evaluated(changes, State_get_cost(a.state, order))

(* one turn of the while loop *)
SAIterate ==
  /\ drv.pc = "loop"
  /\ drv.iterations < MaxIter
  /\ \E m \in MultiChange_new_random(state, MultiChangeParts) :
       IF m.kind # "change"
       THEN /\ drv' = [drv EXCEPT !.pc = m.kind]
            /\ state' = state
       ELSE \E order \in IterationOrders(state.constant_actions) :
              Applied(m.changes, MultiChange_apply(m.changes, state), order)
  /\ UNCHANGED << move, mcmfVars, stackVars, homeVars >>

Finished(r) ==
  /\ state' = r.state
  /\ drv' = [drv EXCEPT !.pc = PcAfter(r.calc, "done"),
                        !.result = [cost |-> drv.old_cost, schedule |-> r.schedule]]

(* the loop's exit: get_schedule() and the return *)
SAFinish ==
  /\ drv.pc = "loop"
  /\ drv.iterations >= MaxIter
  /\ \E order \in IterationOrders(state.constant_actions) :
       Finished(State_get_schedule(state, order))
  /\ UNCHANGED << move, mcmfVars, stackVars, homeVars >>

NextSA ==
  \/ SAStart
  \/ SAIterate
  \/ SAFinish

SpecSA == InitSA /\ [][NextSA]_vars

(***************************************************************************)
(* run_simulated_annealing as a running program, on contexts that have a   *)
(* battery, a variable load and constant loads, some of which fill their   *)
(* whole window.                                                           *)
(***************************************************************************)
RunLoads ==
  { [id |-> i, start_from |-> from_timestep(0), end_before |-> from_timestep(STEPS_PER_DAY),
     duration |-> from_timestep(d), consumption |-> 1] :
      i \in 1..MaxConstantActions, d \in { 1, STEPS_PER_DAY } }

RunContexts ==
  { [gen |-> Uniform(0), price |-> price, cons |-> Uniform(u),
     batteries |-> << battery >>, actions |-> << action >>,
     constant_actions |-> constant_actions] :
      price \in Forecasts(MaxPrice), u \in 0..MaxUncontrolled,
      battery \in { b \in Batteries : b.initial_level = b.capacity },
      action \in { a \in VariableActions :
                     /\ a.id = 3
                     /\ a.start = from_timestep(0)
                     /\ a.end = from_timestep(STEPS_PER_DAY) },
      constant_actions \in { c \in UNION { [1..n -> RunLoads] : n \in 1..MaxConstantActions } :
                               \A i, j \in 1..Len(c) : i < j => c[i].id < c[j].id } }

InitRun ==
  /\ IdleMCMF
  /\ IdleStack
  /\ ctx \in RunContexts
  /\ home = << >>
  /\ phase = "off"
  /\ out = NoOut
  /\ solved = NoSolve
  /\ state = << >>
  /\ drv = [NoDriver EXCEPT !.pc = "start"]
  /\ move = NoMove

SpecRun == InitRun /\ [][NextSA]_vars

(***************************************************************************)
(* RandomMoveChange::new_random step by step: the choice of the action,    *)
(* the turns of its while loop and its return, followed by the caller's    *)
(* apply.  move.changes holds the change being made: new_time is the       *)
(* loop's variable.                                                         *)
(***************************************************************************)
InitGen ==
  /\ IdleMCMF
  /\ IdleStack
  /\ ctx \in RunContexts
  /\ home = << >>
  /\ phase = "off"
  /\ out = NoOut
  /\ solved = NoSolve
  /\ \E order \in IterationOrders(AssignAtStartFrom(ctx.constant_actions, << >>)) :
       state = State_new(ctx, order)
  /\ drv = NoDriver
  /\ move = [NoMove EXCEPT !.phase = "idle"]

StartBound(s, action_id) == s.constant_actions[action_id].action.start_from

EndBound(s, action_id) ==
  s.constant_actions[action_id].action.end_before
    - s.constant_actions[action_id].action.duration

(* constant_action_ids.choose(rng).expect(..), old_time, new_time = old_time *)
GenChoose ==
  /\ move.phase = "idle"
  /\ IF state.constant_action_ids = << >>
     THEN move' = [move EXCEPT !.phase = "panic"]
     ELSE \E action_id \in Range(state.constant_action_ids) :
            move' = [move EXCEPT
                       !.phase = "sampling",
                       !.changes = << [action_id |-> action_id,
                                       old_time |-> state.constant_actions[action_id].start_time,
                                       new_time |-> state.constant_actions[action_id].start_time] >>]
  /\ UNCHANGED << state, drv, mcmfVars, stackVars, homeVars >>

(* one turn of while new_time == old_time *)
GenSample ==
  /\ move.phase = "sampling"
  /\ move.changes[1].new_time = move.changes[1].old_time
  /\ \E n \in sample_centered_int(StartBound(state, move.changes[1].action_id),
                                  EndBound(state, move.changes[1].action_id)) :
       move' = [move EXCEPT !.changes[1].new_time = n]
  /\ UNCHANGED << state, drv, mcmfVars, stackVars, homeVars >>

(* the loop is left and the change returned *)
GenReturn ==
  /\ move.phase = "sampling"
  /\ move.changes[1].new_time # move.changes[1].old_time
  /\ move' = [move EXCEPT !.phase = "made"]
  /\ UNCHANGED << state, drv, mcmfVars, stackVars, homeVars >>

GenApplied(a) ==
  /\ ~a.panic
  /\ state' = a.state
  /\ move' = [NoMove EXCEPT !.phase = "idle"]

(* the caller applies the change and asks for the next one *)
GenApply ==
  /\ move.phase = "made"
  /\ GenApplied(RandomMoveChange_apply(move.changes[1], state))
  /\ UNCHANGED << drv, mcmfVars, stackVars, homeVars >>

NextGen ==
  \/ GenChoose
  \/ GenSample
  \/ GenReturn
  \/ GenApply

(* The loop runs on until its condition fails, and the generator draws     *)
(* afresh at every turn: a value that it can draw it does draw in the end. *)
SpecGen ==
  /\ InitGen
  /\ [][NextGen]_vars
  /\ WF_vars(GenChoose)
  /\ WF_vars(GenSample)
  /\ WF_vars(GenReturn)
  /\ WF_vars(GenApply)

(***************************************************************************)
(* The record constructors (optimizer_context/battery.rs, action/          *)
(* variable.rs, action/constant.rs): an assert! on the arguments, then the *)
(* record of the arguments.  A constructor call ends in                    *)
(* [panic, value]: a panic creates no record.  Times are minutes; the      *)
(* efficiency, an f32 that is stored and never computed with, is a number  *)
(* standing for itself.                                                     *)
(***************************************************************************)
Constructed(asserted, record) ==
  IF asserted THEN [panic |-> FALSE, value |-> record]
  ELSE [panic |-> TRUE, value |-> << >>]

Battery_new(capacity, initial_level, maximum_charge_rate, maximum_output_rate, efficiency, id) ==
  Constructed(initial_level <= capacity,
              [id |-> id, capacity |-> capacity, initial_level |-> initial_level,
               max_charge |-> maximum_charge_rate, max_output |-> maximum_output_rate,
               efficiency |-> efficiency])

VariableAction_new(start, end, total_consumption, max_consumption, id) ==
  Constructed(start < end,
              [id |-> id, start |-> start, end |-> end,
               total_consumption |-> total_consumption,
               max_consumption |-> max_consumption])

(* an assertion that also refuses a duration that fills the window *)
ConstantAction_new_strict(start_from, end_before, duration, consumption, id) ==
  Constructed(start_from + duration < end_before,
              [id |-> id, start_from |-> start_from, end_before |-> end_before,
               duration |-> duration, consumption |-> consumption])

ConstantAction_new(start_from, end_before, duration, consumption, id) ==
  Constructed(start_from + duration <= end_before,
              [id |-> id, start_from |-> start_from, end_before |-> end_before,
               duration |-> duration, consumption |-> consumption])

(* AssignedConstantAction::new with its assertion *)
AssignedConstantAction_new_asserted(action, start_time) ==
  Constructed(ValidAssignment(action, start_time),
              AssignedConstantAction_new(action, start_time))

(* arguments on both sides of every assertion: levels below zero and above *)
(* the capacities, times up to one step past the end of the day            *)
Levels == -1 .. MaxCapacity + 1

Times == { from_timestep(t) : t \in 0 .. STEPS_PER_DAY + 1 }

InitRecords ==
  /\ IdleMCMF
  /\ IdleStack
  /\ IdleHome
  /\ IdleSA

NewBattery ==
  /\ \E capacity \in Levels, initial_level \in Levels, rate \in 1..MaxRate :
       /\ hist' = [op |-> "Battery::new",
                   args |-> [capacity |-> capacity, initial_level |-> initial_level,
                             maximum_charge_rate |-> rate, maximum_output_rate |-> rate,
                             efficiency |-> 1, id |-> 0]]
       /\ out' = Battery_new(capacity, initial_level, rate, rate, 1, 0)
  /\ UNCHANGED << stack, saved, panicked, ctx, home, phase, solved, mcmfVars, saVars >>

NewVariableAction ==
  /\ \E start \in Times, end \in Times, total \in 1..MaxTotal, max \in 1..MaxRate :
       /\ hist' = [op |-> "VariableAction::new",
                   args |-> [start |-> start, end |-> end, total_consumption |-> total,
                             max_consumption |-> max, id |-> 3]]
       /\ out' = VariableAction_new(start, end, total, max, 3)
  /\ UNCHANGED << stack, saved, panicked, ctx, home, phase, solved, mcmfVars, saVars >>

NewConstantAction ==
  /\ \E start_from \in Times, end_before \in Times, duration \in Times :
       /\ hist' = [op |-> "ConstantAction::new",
                   args |-> [start_from |-> start_from, end_before |-> end_before,
                             duration |-> duration, consumption |-> 1, id |-> 1]]
       /\ out' = ConstantAction_new(start_from, end_before, duration, 1, 1)
  /\ UNCHANGED << stack, saved, panicked, ctx, home, phase, solved, mcmfVars, saVars >>

(* the action is a record that ConstantAction::new returned *)
NewAssignedConstantAction ==
  /\ \E start_from \in Times, end_before \in Times, duration \in Times, start_time \in Times :
       /\ ~ConstantAction_new(start_from, end_before, duration, 1, 1).panic
       /\ hist' = [op |-> "AssignedConstantAction::new",
                   args |-> [action |-> ConstantAction_new(start_from, end_before,
                                                           duration, 1, 1).value,
                             start_time |-> start_time]]
       /\ out' = AssignedConstantAction_new_asserted(
                   ConstantAction_new(start_from, end_before, duration, 1, 1).value,
                   start_time)
  /\ UNCHANGED << stack, saved, panicked, ctx, home, phase, solved, mcmfVars, saVars >>

NextRecords ==
  \/ NewBattery
  \/ NewVariableAction
  \/ NewConstantAction
  \/ NewAssignedConstantAction

SpecRecords == InitRecords /\ [][NextRecords]_vars

(***************************************************************************)
(* The Python binding's AssignedBattery (optimizer/src/lib.rs): the        *)
(* assigned battery of a schedule and the timestamp of its first step.     *)
(* A DateTime is a count of minutes.  WattHour and Watt hold an f64; here  *)
(* a WattHour is its value in thousandths of a Wh and a Watt its value in  *)
(* thousandths of a W, which are integers for the values that occur.       *)
(* A call of the binding ends in [err, value].                             *)
(***************************************************************************)
MaxLevel == 3

Ok(x) == [err |-> FALSE, value |-> x]

Err == [err |-> TRUE, value |-> 0]

(* Time::get_day_end(): the time of the first step after the day *)
get_day_end == from_timestep(STEPS_PER_DAY)

get_next_timestep(time) == time + MINUTES_PER_TIMESTEP

(* Prognoses::get: data.get(time.to_timestep()) *)
Prognoses_get(data, time) ==
  IF from_timestep(to_timestep(time)) \in DOMAIN data
  THEN Some(data[from_timestep(to_timestep(time))]) ELSE None

AssignedBattery_get_charge_level(inner, time) == Prognoses_get(inner.charge_level, time)

datetime_to_time(dt, start_time) ==
  IF dt = start_time THEN Ok(from_timestep(0))
  ELSE IF dt < start_time THEN Err
  ELSE Ok(from_timestep((dt - (start_time - (start_time % MINUTES_PER_TIMESTEP)))
                          \div MINUTES_PER_TIMESTEP))

(* WattHour::from_milli_wh: value / 1000 Wh *)
from_milli_wh(value) == [milli_wh |-> value]

(* &WattHour / TimeDelta and &Watt * TimeDelta, the TimeDelta in minutes *)
WattHour_div(wh, minutes) == [milli_w |-> (wh.milli_wh * 60) \div minutes]

Watt_mul(w, minutes) == [milli_wh |-> (w.milli_w * minutes) \div 60]

to_milli_wh(wh) == wh.milli_wh

from_milli_watt_hour_per_timestep(value) ==
  WattHour_div(from_milli_wh(value), MINUTES_PER_TIMESTEP)

to_milli_watt_hour_per_timestep(w) == to_milli_wh(Watt_mul(w, MINUTES_PER_TIMESTEP))

get_charge_level(self, time) ==
  IF datetime_to_time(time, self.start_timestamp).err THEN Err
  ELSE IF AssignedBattery_get_charge_level(
            self.inner, datetime_to_time(time, self.start_timestamp).value).some
  THEN Ok(from_milli_wh(AssignedBattery_get_charge_level(
            self.inner, datetime_to_time(time, self.start_timestamp).value).value))
  ELSE Err

ChargeSpeed(curr_level, next_level, next_time) ==
  IF ~curr_level.some THEN Err
  ELSE IF next_level.some
  THEN Ok(from_milli_watt_hour_per_timestep(next_level.value - curr_level.value))
  ELSE IF next_time = get_day_end
  THEN Ok(from_milli_watt_hour_per_timestep(0 - curr_level.value))
  ELSE Err

get_charge_speed(self, time) ==
  IF datetime_to_time(time, self.start_timestamp).err THEN Err
  ELSE ChargeSpeed(
         AssignedBattery_get_charge_level(
           self.inner, datetime_to_time(time, self.start_timestamp).value),
         AssignedBattery_get_charge_level(
           self.inner,
           get_next_timestep(datetime_to_time(time, self.start_timestamp).value)),
         get_next_timestep(datetime_to_time(time, self.start_timestamp).value))

(* the assigned batteries asked: every course of levels up to MaxLevel over *)
(* the day; the times asked for: from before the first step to after the    *)
(* last                                                                     *)
AssignedBatteries ==
  { [inner |-> [battery |-> [id |-> 0, capacity |-> MaxLevel, initial_level |-> levels[from_timestep(0)],
                             max_charge |-> MaxLevel, max_output |-> MaxLevel],
                charge_level |-> levels],
     start_timestamp |-> 0] : levels \in [DaySteps -> 0..MaxLevel] }

AskedTimes == (0 - MINUTES_PER_TIMESTEP) .. from_timestep(STEPS_PER_DAY + 1)

InitSpeed ==
  /\ IdleMCMF
  /\ IdleStack
  /\ ctx \in AssignedBatteries
  /\ home = << >>
  /\ phase = "off"
  /\ out = NoOut
  /\ solved = NoSolve
  /\ IdleSA

GetChargeLevel ==
  /\ \E time \in AskedTimes :
       /\ hist' = [op |-> "get_charge_level", time |-> time]
       /\ out' = get_charge_level(ctx, time)
  /\ UNCHANGED << stack, saved, panicked, ctx, home, phase, solved, mcmfVars, saVars >>

GetChargeSpeed ==
  /\ \E time \in AskedTimes :
       /\ hist' = [op |-> "get_charge_speed", time |-> time]
       /\ out' = get_charge_speed(ctx, time)
  /\ UNCHANGED << stack, saved, panicked, ctx, home, phase, solved, mcmfVars, saVars >>

NextSpeed ==
  \/ GetChargeLevel
  \/ GetChargeSpeed

SpecSpeed == InitSpeed /\ [][NextSpeed]_vars

(***************************************************************************)
(* Changes on their own: a change is generated against the state and       *)
(* applied, then undone or kept, and costs are asked for in between.       *)
(* move.base and move.base_cost are the constant actions and the cached    *)
(* cost of the state the pending change was generated against.             *)
(***************************************************************************)
InitMove ==
  /\ IdleMCMF
  /\ IdleStack
  /\ ctx \in { c \in Contexts : c.actions = << >> /\ c.constant_actions # << >> }
  /\ home = << >>
  /\ phase = "off"
  /\ out = NoOut
  /\ solved = NoSolve
  /\ \E order \in IterationOrders(AssignAtStartFrom(ctx.constant_actions, << >>)) :
       state = State_new(ctx, order)
  /\ drv = NoDriver
  /\ move = [NoMove EXCEPT !.phase = "idle"]

MoveCosted(r) ==
  /\ ~r.calc.hang
  /\ ~r.calc.panic
  /\ state' = r.state

MoveGetCost ==
  /\ move.phase \in { "idle", "applied", "undone" }
  /\ \E order \in IterationOrders(state.constant_actions) :
       MoveCosted(State_get_cost(state, order))
  /\ UNCHANGED << drv, move, mcmfVars, stackVars, homeVars >>

MoveApplied(changes, a) ==
  /\ ~a.panic
  /\ state' = a.state
  /\ move' = [phase |-> "applied", changes |-> changes,
              base |-> state.constant_actions,
              base_cost |-> state.smart_home_flow.calc_result]

(* a compound move of k parts, k = 1 being a single random move, generated *)
(* against a state whose cost has been asked for                           *)
MoveApply ==
  /\ move.phase = "idle"
  /\ state.smart_home_flow.calc_result.some
  /\ \E k \in 0..MultiChangeParts :
       \E m \in MultiChange_new_random(state, k) :
          /\ m.kind = "change"
          /\ MoveApplied(m.changes, MultiChange_apply(m.changes, state))
  /\ UNCHANGED << drv, mcmfVars, stackVars, homeVars >>

MoveUndone(u) ==
  /\ ~u.panic
  /\ state' = u.state
  /\ move' = [move EXCEPT !.phase = "undone"]

MoveUndo ==
  /\ move.phase = "applied"
  /\ MoveUndone(MultiChange_undo(move.changes, state))
  /\ UNCHANGED << drv, mcmfVars, stackVars, homeVars >>

MoveKeep ==
  /\ move.phase \in { "applied", "undone" }
  /\ move' = [NoMove EXCEPT !.phase = "idle"]
  /\ UNCHANGED << state, drv, mcmfVars, stackVars, homeVars >>

NextMove ==
  \/ MoveGetCost
  \/ MoveApply
  \/ MoveUndo
  \/ MoveKeep

SpecMove == InitMove /\ [][NextMove]_vars

(***************************************************************************)
(* A built SmartHomeFlow in use: constant loads are added and removed and  *)
(* costs and schedules are asked for, in any order.  saved is the graph    *)
(* that was handed to SmartHomeFlow::new.  Next to the instance a second   *)
(* one, built from the same context and holding the same constant loads,   *)
(* answers each get_cost() and get_schedule(); its HashMap yields the      *)
(* loads in an order of its own, and hist holds the cost and the schedule  *)
(* it returns.                                                             *)
(***************************************************************************)
BuilderFor(c) ==
  add_actions(add_batteries(SmartHomeFlowBuilder_new(c.gen, c.price, c.cons, c.frac),
                            c.batteries), c.actions)

CacheContexts ==
  { [gen |-> Uniform(0), price |-> price, cons |-> Uniform(u), frac |-> FracDen,
     batteries |-> batteries, actions |-> actions] :
      price \in Forecasts(MaxPrice), u \in 0..MaxUncontrolled,
      batteries \in OptionalOne({ b \in Batteries : ValidBattery(b) }),
      actions \in OptionalOne({ a \in VariableActions :
                                  /\ a.id = 3
                                  /\ a.start = from_timestep(0)
                                  /\ a.end = from_timestep(STEPS_PER_DAY) }) }

(* the constant loads differ in what they consume *)
CacheLoads ==
  { [id |-> i, start_from |-> from_timestep(0), end_before |-> from_timestep(STEPS_PER_DAY),
     duration |-> from_timestep(1), consumption |-> i] : i \in 1..MaxConstantActions }

InitCache ==
  /\ IdleMCMF
  /\ stack = StackProxy_new(FlowWrapper_new)
  /\ panicked = FALSE
  /\ ctx \in CacheContexts
  /\ saved = BuilderFor(ctx).flow
  /\ home = build(BuilderFor(ctx))
  /\ phase = "built"
  /\ out = NoOut
  /\ hist = NoOut
  /\ solved = NoSolve
  /\ IdleSA

CacheAdd ==
  /\ phase = "built"
  /\ \E action \in CacheLoads, start_time \in 0..from_timestep(STEPS_PER_DAY) :
       /\ ValidAssignment(action, start_time)
       /\ home' = add_constant_consumption(home,
                    AssignedConstantAction_new(action, start_time))
  /\ out' = [NoOut EXCEPT !.op = "add"]
  /\ hist' = NoOut
  /\ UNCHANGED << ctx, phase, solved, saved, stack, panicked, mcmfVars, saVars >>

CacheRemove ==
  /\ phase = "built"
  /\ \E id \in 1..MaxConstantActions :
       home' = remove_constant_consumption(home, id).home
  /\ out' = [NoOut EXCEPT !.op = "remove"]
  /\ hist' = NoOut
  /\ UNCHANGED << ctx, phase, solved, saved, stack, panicked, mcmfVars, saVars >>

(* what the second instance returns, kept until the loads change: it holds *)
(* the same loads and solves when the first one does                       *)
TwinReturned(c, schedule) ==
  hist' = IF c.hang \/ c.panic THEN [NoOut EXCEPT !.op = "failed"]
          ELSE [op |-> "twin", value |-> c.home.calc_result.value, schedule |-> schedule]

TwinScheduleReturned(r) == TwinReturned(r.calc, r.schedule)

TwinAnswers ==
  IF home.calc_result.some THEN hist' = hist
  ELSE \E order \in IterationOrders(home.constant_actions) :
          TwinScheduleReturned(get_schedule(home, order))

CacheGetCost ==
  /\ phase = "built"
  /\ \E order \in IterationOrders(home.constant_actions) :
       Returned(get_cost(home, order), "get_cost", << >>)
  /\ TwinAnswers
  /\ UNCHANGED << ctx, saved, stack, panicked, mcmfVars, saVars >>

CacheGetSchedule ==
  /\ phase = "built"
  /\ \E order \in IterationOrders(home.constant_actions) :
       ScheduleReturned(get_schedule(home, order))
  /\ TwinAnswers
  /\ UNCHANGED << ctx, saved, stack, panicked, mcmfVars, saVars >>

NextCache ==
  \/ CacheAdd
  \/ CacheRemove
  \/ CacheGetCost
  \/ CacheGetSchedule

SpecCache == InitCache /\ [][NextCache]_vars

(***************************************************************************)
(* What a solve used: for a forward edge, the capacity it had when the     *)
(* solve began minus the residual it was left with.                        *)
(***************************************************************************)
IsCalculated == phase = "built" /\ home.calc_result.some

Top == StackProxy_deref(home.flow)

UsedFlow(id) == Get(solved.presolve.inner.edges, id).f - Get(Top.inner.edges, id).f

(* used flow into v minus used flow out of v, over the forward edges 0, 2, .., 2(k - 1) *)
RECURSIVE NetUsedInto(_, _)
NetUsedInto(v, k) ==
  IF k = 0 THEN 0
  ELSE NetUsedInto(v, k - 1)
       + (IF Get(Top.inner.edges, 2 * (k - 1)).to = v THEN UsedFlow(2 * (k - 1)) ELSE 0)
       - (IF Get(Top.inner.edges, 2 * (k - 1) + 1).to = v THEN UsedFlow(2 * (k - 1)) ELSE 0)

RECURSIVE SumOver(_, _)
SumOver(f, S) ==
  IF S = { } THEN 0
  ELSE LET x == CHOOSE y \in S : TRUE IN f[x] + SumOver(f, S \ { x })

(***************************************************************************)
(* C2: after get_cost()/get_schedule() has solved a smart-home graph       *)
(* (forecasts with non-negative prices, batteries, variable loads and      *)
(* assigned constant loads), every node other than source and sink is      *)
(* balanced: the used flow on its incoming forward edges equals the used   *)
(* flow on its outgoing forward edges.                                     *)
(***************************************************************************)
C2_NodesBalanced ==
  IsCalculated =>
    \A v \in 2..(NumNodes(Top.inner) - 1) :
       NetUsedInto(v, Len(Top.inner.edges) \div 2) = 0

(* a solved graph with a battery, a variable load and two constant loads, *)
(* in which the battery carried energy from step 0 to step 1              *)
C2_Witness ==
  /\ IsCalculated
  /\ Len(ctx.batteries) = 1
  /\ Len(ctx.actions) = 1
  /\ Cardinality(DOMAIN home.constant_actions) = 2
  /\ UsedFlow(home.blueprint.battery_blueprints[1].relevant_edges[from_timestep(1)]) > 0
  /\ solved.flow_value >= 3

(***************************************************************************)
(* C3: for every variable load whose window caps allow it (the per-step    *)
(* caps over [start, end), the first step scaled, sum to at least          *)
(* total_consumption), after get_cost()/get_schedule() the used flows on   *)
(* its Wire(t) -> Action(a) edges sum to total_consumption, and the        *)
(* extracted consumption array has one entry per step of the window.       *)
(***************************************************************************)
WindowOf(action) == to_timestep(action.start)..(to_timestep(action.end) - 1)

WindowCaps(action) ==
  SumOver([t \in WindowOf(action) |->
             FirstStepScaled(action.max_consumption, ctx.frac, t)], WindowOf(action))

C3_VariableLoadFullyServed ==
  IsCalculated =>
    \A i \in 1..Len(home.blueprint.variable_action_blueprints) :
       LET bp == home.blueprint.variable_action_blueprints[i]
       IN WindowCaps(bp.variable_action) >= bp.variable_action.total_consumption =>
            /\ SumOver([t \in WindowOf(bp.variable_action) |->
                          UsedFlow(bp.relevant_edges[from_timestep(t)])],
                       WindowOf(bp.variable_action))
                 = bp.variable_action.total_consumption
            /\ out.op = "get_schedule" =>
                 Len(out.schedule.variable_actions[bp.variable_action.id].consumption)
                   = Cardinality(WindowOf(bp.variable_action))

(***************************************************************************)
(* C4: the value get_cost() returns is the sum over the steps t of         *)
(* price[t] times the used flow on the Network -> Wire(t) blueprint edge,  *)
(* plus 1 per unit of used flow on the Wire(t) -> Sink edges added for the *)
(* assigned constant loads; no other edge contributes.                     *)
(***************************************************************************)
DayRange == 0..(STEPS_PER_DAY - 1)

ImportCost ==
  SumOver([t \in DayRange |->
             Get(ctx.price, t)
               * UsedFlow(home.blueprint.network_consumption_blueprint[from_timestep(t)])],
          DayRange)

(* the forward edges of the top overlay that the baseline does not have *)
ConstantEdges ==
  { id \in (Len(home.flow[1].inner.edges))..(Len(Top.inner.edges) - 1) : id % 2 = 0 }

Penalty == SumOver([id \in ConstantEdges |-> UsedFlow(id)], ConstantEdges)

C4_CostIsImportPlusPenalty ==
  (IsCalculated /\ out.op = "get_cost") => out.value = ImportCost + Penalty

(* a cost made of both parts: paid import and the penalty of a constant load *)
C4_Witness ==
  /\ IsCalculated
  /\ out.op = "get_cost"
  /\ ImportCost > 0
  /\ Penalty > 0
  /\ Len(ctx.batteries) = 1
  /\ out.value = ImportCost + Penalty

(***************************************************************************)
(* C5: when the maximum flow of the built graph falls short of the sum of  *)
(* the variable loads' total_consumption plus all uncontrolled             *)
(* consumption, the optimisation fails and neither a cost nor a schedule   *)
(* is returned.                                                            *)
(***************************************************************************)
Demand ==
  SumOver([t \in DayRange |-> Get(ctx.cons, t)], DayRange)
  + SumOver([i \in 1..Len(ctx.actions) |-> ctx.actions[i].total_consumption],
            1..Len(ctx.actions))

C5_InfeasibleIsFailure ==
  (IsCalculated /\ solved.flow_value < Demand) =>
     out.op \notin { "get_cost", "get_schedule" }

(***************************************************************************)
(* C6: for a context with no batteries, no variable loads and no constant  *)
(* loads, uniform price p, zero generation and uncontrolled consumption u  *)
(* at every step, run_simulated_annealing returns normally, with cost      *)
(* p * u * STEPS_PER_DAY and a schedule whose network import is u at every *)
(* step.                                                                   *)
(***************************************************************************)
EmptyUniformContext ==
  /\ drv.pc # "off"
  /\ ctx.batteries = << >>
  /\ ctx.actions = << >>
  /\ ctx.constant_actions = << >>
  /\ ctx.gen = Uniform(0)
  /\ ctx.price = Uniform(Get(ctx.price, 0))

C6_EmptyContextReturns ==
  (EmptyUniformContext /\ drv.pc \in { "done", "panic", "hang" }) =>
     /\ drv.pc = "done"
     /\ drv.result.cost = Get(ctx.price, 0) * Get(ctx.cons, 0) * STEPS_PER_DAY
     /\ \A t \in DayRange :
          drv.result.schedule.network_consumption[from_timestep(t)] = Get(ctx.cons, 0)

(***************************************************************************)
(* C7: for a state s and a move generated against s (a single random move, *)
(* or a compound move applied in order and undone in reverse order, its    *)
(* parts possibly picking the same constant load), apply then undo leaves  *)
(* every constant load with the start time it had in s, and a get_cost()   *)
(* after it equals get_cost() in s; an empty compound move changes neither.*)
(***************************************************************************)
C7_UndoRestores ==
  move.phase = "undone" =>
     /\ state.constant_actions = move.base
     /\ state.smart_home_flow.constant_actions = move.base
     /\ move.base_cost.some
     /\ state.smart_home_flow.calc_result.some =>
          state.smart_home_flow.calc_result = move.base_cost
     /\ move.changes = << >> => state.smart_home_flow.calc_result.some

(* a compound move whose two parts moved the same load, undone, the cost asked *)
(* for before and after, in a state other than the one State::new makes        *)
C7_Witness ==
  /\ move.phase = "undone"
  /\ Len(move.changes) = 2
  /\ move.changes[1].action_id = move.changes[2].action_id
  /\ move.base_cost.some
  /\ move.base_cost.value > 0
  /\ state.smart_home_flow.calc_result.some
  /\ \E id \in DOMAIN move.base : move.base[id].start_time # move.base[id].action.start_from

(***************************************************************************)
(* C8: in every iteration of the driver in which the cost after applying   *)
(* the move is strictly lower than the tracked cost, the move is kept and  *)
(* the tracked cost becomes the new cost; undo is called only when the new *)
(* cost is greater than or equal to the tracked cost.                      *)
(***************************************************************************)
C8_ImprovementKept ==
  drv.iterations > 0 =>
     /\ drv.last.new_cost < drv.last.old_cost =>
          (~drv.last.undone /\ drv.old_cost = drv.last.new_cost)
     /\ drv.last.undone =>
          (drv.last.new_cost >= drv.last.old_cost /\ drv.old_cost = drv.last.old_cost)

(* a second iteration that found a strictly lower cost and kept its move *)
C8_Witness ==
  /\ drv.iterations = 2
  /\ drv.last.new_cost < drv.last.old_cost
  /\ ~drv.last.undone
  /\ drv.old_cost = drv.last.new_cost

(***************************************************************************)
(* C11: after any sequence of add_constant_consumption,                    *)
(* remove_constant_consumption, get_cost and get_schedule calls, every add *)
(* or remove empties the cache, and whenever the cache is non-empty the    *)
(* top overlay consists of exactly the baseline edges plus, for each       *)
(* constant load in the map and each step t of its active interval, one    *)
(* Wire(t) -> Sink edge with capacity = consumption and cost 1, and the    *)
(* cached cost is the result of solving that graph.                        *)
(***************************************************************************)
Baseline == home.flow[1]

NumPairs(w) == Len(w.inner.edges) \div 2

(* pair k of a graph: where its forward edge leaves and enters, the capacity *)
(* it was given (what is left of it plus what was used) and its cost         *)
EdgeOf(w, k) ==
  [from |-> Get(w.inner.edges, 2 * k + 1).to,
   to |-> Get(w.inner.edges, 2 * k).to,
   cap |-> Get(w.inner.edges, 2 * k).f + Get(w.inner.edges, 2 * k + 1).f,
   cost |-> Get(w.inner.edges, 2 * k).cost]

(* the edge the map asks for, for load id at step t *)
LoadEdge(id, t) ==
  [from |-> Baseline.node_map[NodeKey(Wire(from_timestep(t)))],
   to |-> SINK,
   cap |-> home.constant_actions[id].action.consumption,
   cost |-> 1]

ActiveSteps ==
  { x \in (DOMAIN home.constant_actions) \X DayRange :
      /\ to_timestep(home.constant_actions[x[1]].start_time) <= x[2]
      /\ x[2] < to_timestep(home.constant_actions[x[1]].start_time)
                 + to_timestep(home.constant_actions[x[1]].action.duration) }

OverlayPairs == NumPairs(Baseline)..(NumPairs(Top) - 1)

C11_CacheReflectsLoads ==
  /\ out.op \in { "add", "remove" } => ~home.calc_result.some
  /\ IsCalculated =>
       /\ NumPairs(Top) = NumPairs(Baseline) + Cardinality(ActiveSteps)
       /\ \A k \in 0..(NumPairs(Baseline) - 1) : EdgeOf(Top, k) = EdgeOf(Baseline, k)
       /\ \A x \in ActiveSteps :
            Cardinality({ k \in OverlayPairs : EdgeOf(Top, k) = LoadEdge(x[1], x[2]) })
              = Cardinality({ y \in ActiveSteps : LoadEdge(y[1], y[2]) = LoadEdge(x[1], x[2]) })
       /\ \A k \in 0..(NumPairs(Top) - 1) :
            /\ EdgeOf(solved.presolve, k) = EdgeOf(Top, k)
            /\ k \in OverlayPairs => Get(solved.presolve.inner.edges, 2 * k + 1).f = 0
       /\ \A i \in 1..Len(Baseline.inner.edges) :
            solved.presolve.inner.edges[i] = Baseline.inner.edges[i]
       /\ home.calc_result.value = FlowWrapper_mincostflow(solved.presolve).cost

(* a cost cached while the map holds load 2 alone, placed at step 1: the *)
(* overlay has the baseline edges and one edge more                      *)
C11_Witness ==
  /\ IsCalculated
  /\ out.op = "get_cost"
  /\ DOMAIN home.constant_actions = { 2 }
  /\ home.constant_actions[2].start_time = from_timestep(1)
  /\ home.calc_result.value > 0
  /\ NumPairs(Top) = NumPairs(Baseline) + 1

(***************************************************************************)
(* C12: after SmartHomeFlow::new and after any sequence of add, remove,    *)
(* get_cost and get_schedule calls, the snapshot stack has depth exactly 2 *)
(* and its bottom frame is identical to the graph handed to                *)
(* SmartHomeFlow::new: no constant-load edge is added to it and no         *)
(* residual capacity of it is changed by a solve.                          *)
(***************************************************************************)
C12_BaselineUntouched ==
  /\ Len(home.flow) = 2
  /\ home.flow[1] = saved

(* a solve with a constant load has changed residuals of baseline edges in *)
(* the overlay                                                             *)
C12_Witness ==
  /\ IsCalculated
  /\ home.constant_actions # << >>
  /\ NumPairs(Top) > NumPairs(Baseline)
  /\ \E i \in 1..Len(Baseline.inner.edges) :
       Top.inner.edges[i].f # Baseline.inner.edges[i].f
  /\ home.flow[1] = saved

(***************************************************************************)
(* C14: two SmartHomeFlow instances built from the same context and        *)
(* holding the same set of assigned constant loads return the same cost    *)
(* from get_cost() and the same used flow on every blueprint edge (network *)
(* import per step, variable-load consumption per step, battery level per  *)
(* step).                                                                  *)
(***************************************************************************)
C14_SameContextSameAnswer ==
  (IsCalculated /\ hist.op = "twin") =>
     /\ home.calc_result.value = hist.value
     /\ SmartHomeBlueprint_construct(home.blueprint, Top) = hist.schedule
     /\ out.op = "get_cost" => out.value = hist.value
     /\ out.op = "get_schedule" => out.schedule = hist.schedule

(* both instances hold two loads on the same step, a battery and a variable *)
(* load, and have returned a schedule                                       *)
C14_Witness ==
  /\ IsCalculated
  /\ hist.op = "twin"
  /\ out.op = "get_schedule"
  /\ DOMAIN home.constant_actions = { 1, 2 }
  /\ home.constant_actions[1].start_time = home.constant_actions[2].start_time
  /\ Len(ctx.batteries) = 1
  /\ Len(ctx.actions) = 1
  /\ out.value > 0

(***************************************************************************)
(* C13: for every battery b with 0 <= initial_level <= capacity and every  *)
(* step t, the charge level BatteryBlueprint::construct extracts           *)
(* (initial_level at t = 0, the used flow on the persistence edge          *)
(* Battery(b, t - 1) -> Battery(b, t) for t >= 1) lies in [0, capacity_b]. *)
(***************************************************************************)
BatteryOf(i) == home.blueprint.battery_blueprints[i]

C13_ChargeLevelInRange ==
  (phase = "built" /\ out.op = "get_schedule") =>
     \A i \in 1..Len(home.blueprint.battery_blueprints) :
        LET assigned == out.schedule.batteries[BatteryOf(i).battery.id]
        IN /\ ~assigned.panic
           /\ DaySteps \subseteq DOMAIN assigned.charge_level
           /\ assigned.charge_level[from_timestep(0)] = BatteryOf(i).battery.initial_level
           /\ \A t \in 1..(STEPS_PER_DAY - 1) :
                assigned.charge_level[from_timestep(t)]
                  = UsedFlow(BatteryOf(i).relevant_edges[from_timestep(t)])
           /\ \A t \in DaySteps :
                /\ 0 <= assigned.charge_level[t]
                /\ assigned.charge_level[t] <= BatteryOf(i).battery.capacity

(* a schedule in which the battery started full and is empty at step 1 *)
C13_Witness ==
  /\ phase = "built"
  /\ out.op = "get_schedule"
  /\ Len(home.blueprint.battery_blueprints) = 1
  /\ BatteryOf(1).battery.initial_level = BatteryOf(1).battery.capacity
  /\ out.schedule.batteries[BatteryOf(1).battery.id].charge_level[from_timestep(0)] > 0
  /\ out.schedule.batteries[BatteryOf(1).battery.id].charge_level[from_timestep(1)] = 0
  /\ solved.flow_value > 0

(***************************************************************************)
(* C19: in every feasible solve the Source -> Battery(b, 0) edge is fully  *)
(* saturated, so the charge level reported for t = 0 (initial_level)       *)
(* equals the used flow on that edge, for every battery b and every        *)
(* context, contexts with little or no demand included.                    *)
(***************************************************************************)
AssignedDemand ==
  SumOver([id \in DOMAIN solved.assigned |->
             solved.assigned[id].action.consumption
               * to_timestep(solved.assigned[id].action.duration)],
          DOMAIN solved.assigned)

InitialEdges(battery) ==
  { k \in 0..(NumPairs(solved.presolve) - 1) :
      /\ EdgeOf(solved.presolve, k).from = SOURCE
      /\ EdgeOf(solved.presolve, k).to
           = solved.presolve.node_map[NodeKey(Battery(battery.id, from_timestep(0)))] }

C19_InitialEdgeSaturated ==
  (IsCalculated /\ solved.flow_value >= Demand + AssignedDemand) =>
     \A i \in 1..Len(ctx.batteries) :
        SumOver([k \in InitialEdges(ctx.batteries[i]) |-> UsedFlow(2 * k)],
                InitialEdges(ctx.batteries[i]))
          = ctx.batteries[i].initial_level


(***************************************************************************)
(* C15: run_simulated_annealing returns for every valid context that has a *)
(* battery, constant loads and variable loads, after the number of         *)
(* iterations the temperature schedule fixes.  A call that returns is, at  *)
(* every moment, at its start, in its loop, or done with MaxIter           *)
(* iterations run: from any other place no step of the driver leads on.    *)
(* It does not hold: when new_random picks a load whose window leaves it a *)
(* single start, the call stays in that iteration for good.                *)
(***************************************************************************)
C15_RunReturns ==
  /\ drv.pc \in { "start", "loop", "done" }
  /\ drv.pc = "done" => drv.iterations = MaxIter

(***************************************************************************)
(* C16: move generation always eventually yields a move: when the load     *)
(* picked by new_random has a single legal start (lo = hi) and another     *)
(* load can move, the move is made against another load.  In the model: a  *)
(* call that is in the sampling loop while some load has two legal starts  *)
(* leads to a call that has returned its change.                           *)
(* It does not hold: the loop keeps sampling for the load it picked.       *)
(***************************************************************************)
SomeLoadCanMove ==
  \E action_id \in Range(state.constant_action_ids) :
     StartBound(state, action_id) < EndBound(state, action_id)

C16_MoveIsMade ==
  (move.phase = "sampling" /\ SomeLoadCanMove) ~> (move.phase = "made")

(***************************************************************************)
(* C17: in every reachable annealing state each constant load of the       *)
(* context has exactly one assignment, and its start_time lies in          *)
(* [start_from, end_before - duration]: State::new places every load at    *)
(* start_from, every change that was generated has a new start different   *)
(* from the start it was generated against and inside that interval, and   *)
(* apply and undo keep the invariant.  The flow holds the same assignments *)
(* as the state.                                                           *)
(***************************************************************************)
LegalStarts(action) == action.start_from .. (action.end_before - action.duration)

Loads == Range(ctx.constant_actions)

OneAssignmentEach ==
  /\ DOMAIN state.constant_actions = { action.id : action \in Loads }
  /\ Len(state.constant_action_ids) = Cardinality(Loads)
  /\ Range(state.constant_action_ids) = DOMAIN state.constant_actions
  /\ state.smart_home_flow.constant_actions = state.constant_actions
  /\ \A action \in Loads :
        /\ state.constant_actions[action.id].action = action
        /\ state.constant_actions[action.id].start_time \in LegalStarts(action)

NewPlacesAtStartFrom ==
  \A order \in IterationOrders(AssignAtStartFrom(ctx.constant_actions, << >>)) :
     \A action \in Loads :
        State_new(ctx, order).constant_actions[action.id].start_time = action.start_from

GeneratedMovesLegal ==
  \A k \in 1..Len(move.changes) :
     /\ move.changes[k].action_id \in DOMAIN move.base
     /\ move.changes[k].old_time = move.base[move.changes[k].action_id].start_time
     /\ move.changes[k].new_time # move.changes[k].old_time
     /\ move.changes[k].new_time \in LegalStarts(move.base[move.changes[k].action_id].action)

C17_OneLegalAssignment ==
  /\ OneAssignmentEach
  /\ NewPlacesAtStartFrom
  /\ GeneratedMovesLegal

(* a load stands at another start than start_from after an apply, and      *)
(* after an undo of a change of two parts                                  *)
C17_Witness ==
  /\ move.phase = "applied"
  /\ \E action \in Loads :
        state.constant_actions[action.id].start_time # action.start_from

C17_WitnessUndone ==
  /\ move.phase = "undone"
  /\ Len(move.changes) = 2
  /\ \E action \in Loads :
        state.constant_actions[action.id].start_time # action.start_from

(***************************************************************************)
(* C18: each record constructor fails, creating no record, exactly when    *)
(* its invariant is violated: Battery::new when initial_level > capacity,  *)
(* VariableAction::new when start >= end, ConstantAction::new when         *)
(* start_from + duration > end_before, AssignedConstantAction::new when    *)
(* start_time < start_from or start_time + duration > end_before; in every *)
(* other case it returns a record holding the given values.                *)
(***************************************************************************)
InvariantViolated ==
  CASE hist.op = "Battery::new" -> hist.args.initial_level > hist.args.capacity
    [] hist.op = "VariableAction::new" -> hist.args.start >= hist.args.end
    [] hist.op = "ConstantAction::new" ->
         hist.args.start_from + hist.args.duration > hist.args.end_before
    [] hist.op = "AssignedConstantAction::new" ->
         \/ hist.args.start_time < hist.args.action.start_from
         \/ hist.args.start_time + hist.args.action.duration > hist.args.action.end_before
    [] OTHER -> FALSE

HoldsGivenValues ==
  CASE hist.op = "Battery::new" ->
         /\ out.value.capacity = hist.args.capacity
         /\ out.value.initial_level = hist.args.initial_level
         /\ out.value.max_charge = hist.args.maximum_charge_rate
         /\ out.value.max_output = hist.args.maximum_output_rate
         /\ out.value.efficiency = hist.args.efficiency
         /\ out.value.id = hist.args.id
    [] hist.op = "AssignedConstantAction::new" ->
         /\ out.value.action = hist.args.action
         /\ out.value.start_time = hist.args.start_time
    [] OTHER -> out.value = hist.args

C18_ConstructorsRefuse ==
  hist.op \in { "Battery::new", "VariableAction::new", "ConstantAction::new",
                "AssignedConstantAction::new" }
    => /\ out.panic <=> InvariantViolated
       /\ out.panic => out.value = << >>
       /\ ~out.panic => HoldsGivenValues

(* a constant action that fills its window exactly was constructed *)
C18_Witness ==
  /\ hist.op = "ConstantAction::new"
  /\ ~out.panic
  /\ hist.args.duration > 0
  /\ hist.args.start_from + hist.args.duration = hist.args.end_before

(* an assignment one step past the last legal start was refused *)
C18_WitnessRefused ==
  /\ hist.op = "AssignedConstantAction::new"
  /\ out.panic
  /\ hist.args.start_time + hist.args.action.duration = hist.args.action.end_before + from_timestep(1)

(***************************************************************************)
(* C20: get_charge_speed(time) of the Python binding returns the charge    *)
(* level at the next timestep minus the charge level at time, and returns  *)
(* 0 when time is the last timestep of the day, whatever the charge level  *)
(* at that timestep is.  The speed is compared in the unit of the levels,  *)
(* milli-Wh per timestep.                                                  *)
(* It does not hold at the last timestep: the level of the day end is      *)
(* taken as 0 and the level at time is subtracted from it.                 *)
(***************************************************************************)
LastStep == from_timestep(STEPS_PER_DAY - 1)

LevelAt(time) == ctx.inner.charge_level[time]

C20_SpeedBeforeLastStep ==
  (hist.op = "get_charge_speed" /\ hist.time \in DaySteps \ { LastStep })
    => /\ ~out.err
       /\ to_milli_watt_hour_per_timestep(out.value)
            = LevelAt(get_next_timestep(hist.time)) - LevelAt(hist.time)

C20_ChargeSpeed ==
  /\ C20_SpeedBeforeLastStep
  /\ (hist.op = "get_charge_speed" /\ hist.time = LastStep)
       => /\ ~out.err
          /\ to_milli_watt_hour_per_timestep(out.value) = 0

(***************************************************************************)
(* C21: in every state reached while mincostflow() runs and after it, each *)
(* edge pair (2k, 2k + 1) has both residuals non-negative and summing to   *)
(* the capacity add_edge was given, the reverse cost is the negated        *)
(* forward cost, and the used flow (capacity minus forward residual) lies  *)
(* in [0, capacity].                                                       *)
(***************************************************************************)
ForwardEdge(k) == Get(mcf.edges, 2 * k)

ReverseEdge(k) == Get(mcf.edges, 2 * k + 1)

PairUsed(k) == Get(built, k).cap - ForwardEdge(k).f

C21_WitnessCancelled ==
  /\ pc = "spfa"
  /\ mcf.maxflow = 0
  /\ \E k \in 0..(Len(built) - 1) : PairUsed(k) > 0

(* the battery rate edges of a solved smart home: the used flow of          *)
(* Wire(t) -> Battery(b, t) and Battery(b, t) -> Wire(t) stays within the   *)
(* capacity the builder gave the edge                                      *)
RateEdges(battery, t) ==
  { k \in 0..(NumPairs(solved.presolve) - 1) :
      LET wire == solved.presolve.node_map[NodeKey(Wire(from_timestep(t)))]
          cell == solved.presolve.node_map[NodeKey(Battery(battery.id, from_timestep(t)))]
      IN \/ EdgeOf(solved.presolve, k).from = wire /\ EdgeOf(solved.presolve, k).to = cell
         \/ EdgeOf(solved.presolve, k).from = cell /\ EdgeOf(solved.presolve, k).to = wire }

BatteryRatesRespected ==
  IsCalculated =>
     \A i \in 1..Len(ctx.batteries) : \A t \in DayRange :
        \A k \in RateEdges(ctx.batteries[i], t) :
           /\ 0 <= UsedFlow(2 * k)
           /\ UsedFlow(2 * k) <= EdgeOf(solved.presolve, k).cap
           /\ EdgeOf(solved.presolve, k).cap
                <= Max(FirstStepScaled(ctx.batteries[i].max_charge, ctx.frac, t),
                       FirstStepScaled(ctx.batteries[i].max_output, ctx.frac, t))

(***************************************************************************)
(* C22: whenever the SPFA pass sees a counter reach n and calls            *)
(* cancel_negative_cycle, the residual graph holds a cycle of positive-    *)
(* residual edges of negative total cost that the source reaches, and the  *)
(* edges collected by walking pref are such a cycle: each edge enters the  *)
(* node the one collected before it leaves, the last collected leaves the  *)
(* node the first enters, every residual is positive and the costs sum to  *)
(* less than 0.                                                            *)
(* It does not hold: the counter counts relaxations, and a node relaxed n  *)
(* times over parallel edges of decreasing cost is on no cycle.            *)
(***************************************************************************)
EdgeFrom(g, id) == Get(g.edges, Xor1(id)).to

(* the nodes the source reaches over edges of positive residual *)
RECURSIVE ReachedFrom(_, _)
ReachedFrom(g, nodes) ==
  LET more == nodes \cup { Get(g.edges, id).to : id \in
                             { i \in 0..(Len(g.edges) - 1) :
                                 EdgeFrom(g, i) \in nodes /\ Get(g.edges, i).f > 0 } }
  IN IF more = nodes THEN nodes ELSE ReachedFrom(g, more)

(* ids, in the order the walk back along pref collects them, is a closed walk *)
ClosedWalk(g, ids) ==
  /\ ids # << >>
  /\ \A i \in 1..(Len(ids) - 1) : Get(g.edges, ids[i + 1]).to = EdgeFrom(g, ids[i])
  /\ EdgeFrom(g, ids[Len(ids)]) = Get(g.edges, ids[1]).to

NegativeCycle(g, ids) ==
  /\ ClosedWalk(g, ids)
  /\ \A i \in 1..Len(ids) : Get(g.edges, ids[i]).f > 0
  /\ SumCost(g.edges, ids) < 0
  /\ \A i \in 1..Len(ids) : Get(g.edges, ids[i]).to \in ReachedFrom(g, { SOURCE })

(* a negative cycle visits no node twice once shortened, so n edges suffice *)
HasNegativeCycle(g) ==
  \E len \in 1..NumNodes(g) :
     \E ids \in [1..len -> 0..(Len(g.edges) - 1)] : NegativeCycle(g, ids)

C22_CancelFindsNegativeCycle ==
  pc = "cancel" =>
     /\ HasNegativeCycle(mcf)
     /\ NegativeCycle(mcf, CycleOf(mcf, cyc))

(***************************************************************************)
(* C23: mincostflow() terminates on every finite graph with non-negative   *)
(* integer capacities: the cancellations and augmentations of a call are   *)
(* bounded.  A call that terminates is never at "hang", the place the      *)
(* model gives a call whose next SPFA pass starts from edges and con it    *)
(* has started a pass from before (the pass, the cancellation after it and *)
(* the restart are functions of the two, so they repeat for ever), or      *)
(* whose path walk or Dijkstra search runs without end.                    *)
(* It does not hold: a cancellation that pushes 0 leaves the graph as it   *)
(* was and the SPFA restarts on it; nothing limits the restarts.           *)
(***************************************************************************)
C23_SolveTerminates == pc # "hang"

(***************************************************************************)
(* C24: whenever dijkstra() is about to run, every edge of positive        *)
(* residual between two nodes the source reaches has a non-negative        *)
(* reduced cost, cost + pi[u] - pi[v].                                     *)
(***************************************************************************)
ReducedCost(g, id) ==
  Get(g.edges, id).cost + Get(g.pi, EdgeFrom(g, id)) - Get(g.pi, Get(g.edges, id).to)

ReducedCostsNonNegative(g) ==
  \A id \in 0..(Len(g.edges) - 1) :
     (/\ Get(g.edges, id).f > 0
      /\ EdgeFrom(g, id) \in ReachedFrom(g, { SOURCE })
      /\ Get(g.edges, id).to \in ReachedFrom(g, { SOURCE }))
       => ReducedCost(g, id) >= 0

C24_ReducedCostsNonNegative == pc = "dijkstra" => ReducedCostsNonNegative(mcf)

(***************************************************************************)
(* C26: the pair mincostflow() returns agrees with the residual graph it   *)
(* leaves: the cost is the sum over the forward edges of cost times used   *)
(* flow, and the flow is the used flow into the sink minus the used flow   *)
(* out of it, whatever augmentations and cancellations the call made.      *)
(***************************************************************************)
UsedFlows == [i \in 1..Len(built) |-> PairUsed(i - 1)]

UsedCost == FlowCost(built, UsedFlows, Len(built))

UsedIntoSink == NetInto(built, UsedFlows, SINK, Len(built))

C26_ReturnMatchesResidual ==
  pc = "done" => /\ ret.cost = UsedCost
                 /\ ret.flow = UsedIntoSink

(***************************************************************************)
(* Incremental solving: a graph is built and solved with mincostflow(),    *)
(* further edges are appended with add_edge, and update_flow() is called   *)
(* on the residual graph the earlier call left.  Each call is one step     *)
(* here; pc is "build", "returned" (mincostflow() returned ret),           *)
(* "appended", "updated" (update_flow() returned ret) or "hang".           *)
(***************************************************************************)
MincostflowCall ==
  /\ pc = "build"
  /\ built # << >>
  /\ LET r == mincostflow(mcf)
     IN /\ mcf' = r.g
        /\ pc' = IF r.hang THEN "hang" ELSE "returned"
        /\ ret' = IF r.hang THEN ret ELSE [cost |-> r.g.mincost, flow |-> r.g.maxflow]
  /\ UNCHANGED << cyc, built, seen, stackVars, homeVars, saVars >>

AddEdgeAfter ==
  /\ pc \in { "returned", "appended", "updated" }
  /\ Len(built) < MaxEdges
  /\ \E u \in 0..(NumNodes(mcf) - 1), v \in 0..(NumNodes(mcf) - 1),
        cap \in 0..MaxCap, cost \in 0..MaxCost :
       /\ mcf' = add_edge(mcf, u, v, cap, cost)
       /\ built' = Append(built, [u |-> u, v |-> v, cap |-> cap, cost |-> cost])
  /\ pc' = "appended"
  /\ UNCHANGED << cyc, seen, ret, stackVars, homeVars, saVars >>

UpdateFlowCall ==
  /\ pc = "appended"
  /\ LET r == update_flow(mcf)
     IN /\ mcf' = r.g
        /\ pc' = IF r.hang THEN "hang" ELSE "updated"
        /\ ret' = IF r.hang THEN ret ELSE [cost |-> r.g.mincost, flow |-> r.g.maxflow]
  /\ UNCHANGED << cyc, built, seen, stackVars, homeVars, saVars >>

NextUpdate ==
  \/ NewNode
  \/ AddEdge
  \/ MincostflowCall
  \/ AddEdgeAfter
  \/ UpdateFlowCall

SpecUpdate == InitMCMF /\ [][NextUpdate]_vars

(* a new graph with n nodes and the edges E, in the order of E *)
RECURSIVE WithNodes(_, _)
WithNodes(g, n) == IF NumNodes(g) >= n THEN g ELSE WithNodes(new_node(g), n)

RECURSIVE WithEdges(_, _)
WithEdges(g, E) ==
  IF E = << >> THEN g
  ELSE WithEdges(add_edge(g, Head(E).u, Head(E).v, Head(E).cap, Head(E).cost), Tail(E))

FreshSolve == mincostflow(WithEdges(WithNodes(MinCostFlow_new, NumNodes(mcf)), built))

(***************************************************************************)
(* C25: after mincostflow() on a graph G and the appending of further      *)
(* edges E with add_edge, update_flow() returns the cumulative (cost,      *)
(* flow) that mincostflow() returns on a new graph holding the edges of G  *)
(* and E.                                                                  *)
(***************************************************************************)
C25_UpdateAgreesWithFresh ==
  (pc = "updated" /\ ~FreshSolve.hang) =>
     /\ ret.cost = FreshSolve.g.mincost
     /\ ret.flow = FreshSolve.g.maxflow

(* the same, for the graphs on which the new solve returns the least cost  *)
(* of the maximum flow                                                     *)
FreshSolveOptimal ==
  /\ ~FreshSolve.hang
  /\ FreshSolve.g.maxflow = MaxFlowValue(built, NumNodes(mcf))
  /\ FreshSolve.g.mincost = MinCostAtValue(built, NumNodes(mcf), FreshSolve.g.maxflow)

UpdateAgreesWithOptimalFresh ==
  (pc = "updated" /\ FreshSolveOptimal) =>
     /\ ret.cost = FreshSolve.g.mincost
     /\ ret.flow = FreshSolve.g.maxflow

(***************************************************************************)
(* Node keying: logical nodes are turned into graph nodes one after the    *)
(* other through IntoNode::into_node on one FlowWrapper, the only frame of *)
(* stack.  hist.interned is the set of (logical node, graph node id)       *)
(* pairs the calls have returned.  Load and battery ids are drawn from     *)
(* 0..MaxNodeId, timesteps from the day and its end.                       *)
(***************************************************************************)
MaxNodeId == 2
MaxInterned == 3

FlowNodes ==
  { Source, Sink, Network, Generator }
    \cup { Wire(from_timestep(t)) : t \in 0..STEPS_PER_DAY }
    \cup { Action(a) : a \in 0..MaxNodeId }
    \cup { Battery(b, from_timestep(t)) : b \in 0..MaxNodeId, t \in 0..STEPS_PER_DAY }

InitNodes ==
  /\ IdleMCMF
  /\ stack = StackProxy_new(FlowWrapper_new)
  /\ saved = << >>
  /\ hist = [op |-> "none", interned |-> { }]
  /\ panicked = FALSE
  /\ IdleHome
  /\ IdleSA

IntoNode ==
  /\ Cardinality(hist.interned) < MaxInterned
  /\ \E x \in FlowNodes :
       LET r == into_node(x, StackProxy_deref(stack))
       IN /\ stack' = StackProxy_deref_mut(stack, r.w)
          /\ hist' = [op |-> "into_node",
                      interned |-> hist.interned \cup { [node |-> x, id |-> r.id] }]
  /\ UNCHANGED << mcmfVars, saved, panicked, homeVars, saVars >>

NextNodes == IntoNode

SpecNodes == InitNodes /\ [][NextNodes]_vars

(***************************************************************************)
(* C27: the node keying of FlowNode is injective: Source, Sink, Network,   *)
(* Generator, Wire(t), Action(a) and Battery(b, t') are mapped to pairwise *)
(* distinct graph node ids, for all timesteps, load ids and battery ids,   *)
(* so no two different logical nodes share a graph node.                   *)
(* It does not hold: Action(a) has the key (a, 0), which is the key of     *)
(* Wire(0) for a = 0, of Network for a = 1 and of Generator for a = 2.     *)
(***************************************************************************)
C27_NodeKeysInjective ==
  \A a \in hist.interned : \A b \in hist.interned :
     a.node # b.node => a.id # b.id

(***************************************************************************)
(* C28: at the start of every iteration of the driver and at its exit the  *)
(* tracked cost old_cost is what get_cost() returns for the current        *)
(* annealing state, after a kept move and after an undone one alike, and   *)
(* the State map and the SmartHomeFlow map hold the same assignments; the  *)
(* pair returned is old_cost and a schedule whose constant loads are the   *)
(* assignments of the State map, so the returned cost is the cost of the   *)
(* placement in the returned schedule.                                     *)
(***************************************************************************)
CostNow(order) == State_get_cost(state, order)

TrackedCostIsCurrent ==
  \A order \in IterationOrders(state.constant_actions) :
     /\ ~CostNow(order).calc.hang
     /\ ~CostNow(order).calc.panic
     /\ CostNow(order).state.smart_home_flow.calc_result.value = drv.old_cost

C28_TrackedCostIsCurrent ==
  /\ drv.pc \in { "loop", "done" } =>
       /\ state.constant_actions = state.smart_home_flow.constant_actions
       /\ TrackedCostIsCurrent
  /\ drv.pc = "done" =>
       /\ drv.result.cost = drv.old_cost
       /\ drv.result.schedule.constant_actions
            = { state.constant_actions[id] : id \in DOMAIN state.constant_actions }

(* the driver returned after a last iteration whose move cost more and was undone *)
C28_Witness ==
  /\ drv.pc = "done"
  /\ drv.last.undone
  /\ drv.last.new_cost > drv.last.old_cost
  /\ drv.result.cost > 0

(* an iteration kept a move that changed the cost and placed a load off its start_from *)
C28_WitnessKept ==
  /\ drv.pc = "loop"
  /\ drv.iterations > 0
  /\ ~drv.last.undone
  /\ drv.last.new_cost # drv.last.old_cost
  /\ \E id \in DOMAIN state.constant_actions :
       state.constant_actions[id].start_time # state.constant_actions[id].action.start_from

(***************************************************************************)
(* C29: in every solved smart-home graph the used flow on the last         *)
(* persistence edge Battery(b, STEPS_PER_DAY - 1) -> Battery(b,            *)
(* STEPS_PER_DAY) is 0 for every battery b: the node it enters has no      *)
(* outgoing edge, so what enters a battery during the day leaves it for a  *)
(* wire within the day.                                                    *)
(***************************************************************************)
LastPersistenceEdge(i) == BatteryOf(i).relevant_edges[from_timestep(STEPS_PER_DAY)]

C29_LastPersistenceUnused ==
  IsCalculated =>
     \A i \in 1..Len(home.blueprint.battery_blueprints) :
        /\ from_timestep(STEPS_PER_DAY) \in DOMAIN BatteryOf(i).relevant_edges
        /\ UsedFlow(LastPersistenceEdge(i)) = 0

(* a solve in which the battery delivers at the last step of the day what *)
(* it held at the start                                                    *)
C29_Witness ==
  /\ IsCalculated
  /\ Len(home.blueprint.battery_blueprints) = 1
  /\ BatteryOf(1).battery.initial_level > 0
  /\ UsedFlow(BatteryOf(1).relevant_edges[from_timestep(STEPS_PER_DAY - 1)]) > 0
  /\ UsedFlow(LastPersistenceEdge(1)) = 0

(***************************************************************************)
(* C30: get_cost() depends only on the set of constant loads assigned: for *)
(* the same baseline and the same map contents it returns the same value   *)
(* whatever order calc_flow iterates the map in and whatever sequence of   *)
(* add and remove calls produced the map.  The cost an instance holds      *)
(* after any history is compared with the cost of an instance newly built  *)
(* from the same context, given the loads of the map in any order and      *)
(* solved in any iteration order.                                          *)
(***************************************************************************)
RECURSIVE AddedInOrder(_, _, _)
AddedInOrder(h, constant_actions, order) ==
  IF order = << >> THEN h
  ELSE AddedInOrder(add_constant_consumption(h, constant_actions[Head(order)]),
                    constant_actions, Tail(order))

NewInstanceCost(added, iterated) ==
  get_cost(AddedInOrder(build(BuilderFor(ctx)), home.constant_actions, added), iterated)

C30_CostDependsOnLoadsOnly ==
  IsCalculated =>
     \A added \in IterationOrders(home.constant_actions) :
        \A iterated \in IterationOrders(home.constant_actions) :
           /\ ~NewInstanceCost(added, iterated).hang
           /\ ~NewInstanceCost(added, iterated).panic
           /\ NewInstanceCost(added, iterated).home.calc_result.value
                = home.calc_result.value

(* a cost returned for two loads placed on different steps, with a battery *)
C30_Witness ==
  /\ IsCalculated
  /\ out.op = "get_cost"
  /\ out.value > 0
  /\ Len(ctx.batteries) = 1
  /\ DOMAIN home.constant_actions = { 1, 2 }
  /\ home.constant_actions[1].start_time # home.constant_actions[2].start_time

====
